---------------------------- MODULE Spec2Model ----------------------------
(***************************************************************************)
(* A model of the dashboard generator's agenda core:                       *)
(*   - distribute_items_across_pages and validate_distribution_balance     *)
(*     (the pagination distribution algorithm),                            *)
(*   - validate_events (the event validator),                              *)
(*   - parse_events (the recurrence resolution engine).                    *)
(* Each component is a state machine of its own; a specification per       *)
(* component runs it on every input of a bounded set.                      *)
(***************************************************************************)
EXTENDS Integers, Sequences, FiniteSets, TLC

VARIABLES
    \* ---- distribute_items_across_pages ----
    dist_pc,            \* "idle" | "call" | "fill" | "returned"
    events,             \* argument: the event list (events are told apart by position)
    tasks,              \* argument: the task list
    max_items,          \* argument: capacity of one page
    page_targets,       \* the target distribution computed up front
    page_idx,           \* loop variable of the page loop (1-based here)
    events_remaining,
    tasks_remaining,
    pages,              \* the page list under construction / returned
    validation,         \* "not_run" | "passed" | "failed": the validation gate
    \* ---- validate_events ----
    val_pc,             \* "idle" | "call" | "returned"
    val_events,         \* argument: the event list
    issues,             \* the validation findings written to the log file
    cleaned_events,     \* the returned list
    \* ---- parse_events ----
    parse_pc,           \* "idle" | "call" | "classified" | "returned" | "raised"
    ical_ok,            \* Calendar.from_ical accepts the payload text
    components,         \* the VEVENT components of the payload, in cal.walk() order
    timezone,           \* UTC offset (hours) of timezone_str
    now,                \* the instant arrow.now() returns (hours, UTC)
    master_events,      \* Pass 1: the masters
    overrides,          \* Pass 1: (uid, recurrence id) -> override component
    cancelled_keys,     \* Pass 1: the cancelled (uid, recurrence id or None) keys
    all_events,         \* the emitted events
    origin,             \* for each emitted event, the occurrence it was made for
    \* ---- convert_to_local ----
    conv_pc,            \* "idle" | "call" | "returned" | "raised"
    conv_dt,            \* argument dt: None or a date / datetime value
    conv_tz,            \* argument timezone_str: its UTC offset, None if unknown
    conv_result,        \* the returned value
    \* ---- main: building the page contexts ----
    main_pc,            \* "idle" | "call" | "today_built" | "built" | "ready"
    today_events,       \* today's events as handed to the distribution
    tomorrow_events,    \* tomorrow's events as handed to the distribution
    max_per_page,       \* Config.MAX_ITEMS_PER_PAGE
    page_contexts,      \* the page contexts built so far
    global_page_number, \* main's global page counter
    built_for,          \* for each context, the section and page it was built for
    \* ---- main: one run of the program ----
    run_pc,             \* "idle" | "start" | "flags" | "config" | "generate" | "upload" | "returned" | "exit1"
    argv,               \* the command line flags given
    on_path,            \* the tools shutil.which() finds
    ssh_key_is_file,    \* Config.REMARKABLE_SSH_KEY.is_file()
    template,           \* the template path: "file" | "dir" | "missing"
    remarkable_ip,      \* Config.REMARKABLE_IP is a non-empty string
    failing,            \* the calls that raise in this run
    UPLOAD_DISABLED,    \* the module global: unset, or True / False
    called              \* the calls made so far, in order

dist_vars == <<dist_pc, events, tasks, max_items, page_targets, page_idx,
               events_remaining, tasks_remaining, pages, validation>>

val_vars == <<val_pc, val_events, issues, cleaned_events>>

parse_vars == <<parse_pc, ical_ok, components, timezone, now, master_events, overrides,
                cancelled_keys, all_events, origin>>

conv_vars == <<conv_pc, conv_dt, conv_tz, conv_result>>

main_vars == <<main_pc, today_events, tomorrow_events, max_per_page,
               page_contexts, global_page_number, built_for>>

run_vars == <<run_pc, argv, on_path, ssh_key_is_file, template, remarkable_ip,
              failing, UPLOAD_DISABLED, called>>

vars == <<dist_pc, events, tasks, max_items, page_targets, page_idx,
          events_remaining, tasks_remaining, pages, validation,
          val_pc, val_events, issues, cleaned_events,
          parse_pc, ical_ok, components, timezone, now, master_events,
          overrides, cancelled_keys, all_events, origin,
          conv_pc, conv_dt, conv_tz, conv_result,
          main_pc, today_events, tomorrow_events, max_per_page,
          page_contexts, global_page_number, built_for,
          run_pc, argv, on_path, ssh_key_is_file, template, remarkable_ip,
          failing, UPLOAD_DISABLED, called>>

----------------------------------------------------------------------------
(* Bounds of the model.                                                    *)

MaxEvents == 16
MaxTasks == 4
MaxCap == 8
MaxValLen == 2
MaxPayloadLen == 2

(* Program constant: the "too many items" safety limit.                    *)
ItemLimit == 1000

----------------------------------------------------------------------------
(* Helpers standing for Python built-ins.                                  *)

Min2(a, b) == IF a <= b THEN a ELSE b
Max2(a, b) == IF a >= b THEN a ELSE b

\* sum(), min(), max() over s[lo..hi]; halving keeps the evaluation shallow.
RECURSIVE SumRange(_, _, _)
SumRange(s, lo, hi) ==
    IF lo > hi THEN 0
    ELSE IF lo = hi THEN s[lo]
    ELSE LET mid == (lo + hi) \div 2
         IN  SumRange(s, lo, mid) + SumRange(s, mid + 1, hi)

RECURSIVE MinRange(_, _, _)
MinRange(s, lo, hi) ==
    IF lo = hi THEN s[lo]
    ELSE LET mid == (lo + hi) \div 2
         IN  Min2(MinRange(s, lo, mid), MinRange(s, mid + 1, hi))

RECURSIVE MaxRange(_, _, _)
MaxRange(s, lo, hi) ==
    IF lo = hi THEN s[lo]
    ELSE LET mid == (lo + hi) \div 2
         IN  Max2(MaxRange(s, lo, mid), MaxRange(s, mid + 1, hi))

SumSeq(s) == SumRange(s, 1, Len(s))
MinSeq(s) == MinRange(s, 1, Len(s))
MaxSeq(s) == MaxRange(s, 1, Len(s))

----------------------------------------------------------------------------
(* validate_distribution_balance                                           *)

PageTotal(page) == Len(page.events) + Len(page.tasks)

PageTotals(ps) == [i \in 1..Len(ps) |-> PageTotal(ps[i])]

validate_distribution_balance(ps, total_events, total_tasks, cap) ==
    IF ps = <<>> THEN total_events = 0 /\ total_tasks = 0
    ELSE
      LET distributed_events == SumSeq([i \in 1..Len(ps) |-> Len(ps[i].events)])
          distributed_tasks  == SumSeq([i \in 1..Len(ps) |-> Len(ps[i].tasks)])
          totals             == PageTotals(ps)
          total_items        == total_events + total_tasks
          min_items          == MinSeq(totals)
          max_items_used     == MaxSeq(totals)
          balance_diff       == max_items_used - min_items
      IN  \* Check 1: all items are preserved
          IF distributed_events # total_events THEN FALSE
          ELSE IF distributed_tasks # total_tasks THEN FALSE
          \* Check 2: no page exceeds max_items
          ELSE IF \E i \in 1..Len(ps) : totals[i] > cap THEN FALSE
          \* Check 3: balance, only when several pages were needed
          ELSE IF Len(ps) > 1 /\ total_items > cap
               THEN IF max_items_used >= 7 /\ min_items <= 2 THEN FALSE
                    ELSE IF balance_diff > 3 /\ total_items > Len(ps) * 4 THEN FALSE
                    ELSE TRUE
          ELSE TRUE

----------------------------------------------------------------------------
(* distribute_items_across_pages                                           *)

EmptyPage == [events |-> <<>>, tasks |-> <<>>]

\* Variant: the safety check already stops a call with exactly 1000 items.
TooManyItemsInclusive(total_items) == total_items >= ItemLimit

\* The safety check: len(events) + len(tasks) > 1000.
TooManyItems(total_items) == total_items > ItemLimit

\* Variant: the "nothing to distribute" early return yields no page at all.
EmptyResultNoPage == <<>>

\* The result of the "nothing to distribute" early return.
EmptyResult == <<EmptyPage>>

\* Variant: floor division instead of ceiling division (never below 1).
MinPagesNeededFloor(total_items, cap) == Max2(1, total_items \div cap)

\* Ceiling division (total_items + max_items - 1) // max_items.
MinPagesNeeded(total_items, cap) == (total_items + cap - 1) \div cap

\* Variant: greedy targets, every page filled to capacity, the rest last.
PageTargetsGreedy(total_items, cap) ==
    LET min_pages_needed == MinPagesNeeded(total_items, cap)
    IN  [i \in 1..min_pages_needed |->
            IF i < min_pages_needed THEN cap
            ELSE total_items - cap * (min_pages_needed - 1)]

\* Variant: the extra items of the remainder go to the last pages.
PageTargetsRemainderLast(total_items, cap) ==
    LET min_pages_needed == MinPagesNeeded(total_items, cap)
        target_per_page  == total_items \div min_pages_needed
        remainder        == total_items % min_pages_needed
    IN  [i \in 1..min_pages_needed |->
            IF i > min_pages_needed - remainder THEN target_per_page + 1
                                                ELSE target_per_page]

\* Variant: every page gets total // pages, the remainder is not handed out.
PageTargetsNoRemainder(total_items, cap) ==
    LET min_pages_needed == MinPagesNeeded(total_items, cap)
    IN  [i \in 1..min_pages_needed |-> total_items \div min_pages_needed]

\* The target distribution, including the "at least 4 items per page" floor.
PageTargets(total_items, cap) ==
    LET min_pages_needed == MinPagesNeeded(total_items, cap)
        target_per_page  == total_items \div min_pages_needed
        remainder        == total_items % min_pages_needed
        raw == [i \in 1..min_pages_needed |->
                   IF i - 1 < remainder THEN target_per_page + 1
                                        ELSE target_per_page]
        min_target == IF min_pages_needed > 1
                      THEN Min2(4, total_items \div min_pages_needed)
                      ELSE 0
    IN  [i \in 1..min_pages_needed |-> Max2(raw[i], min_target)]

\* Variant: pop() takes the last remaining event instead of the first.
RECURSIVE FillEventsPopLast(_, _, _, _)
FillEventsPopLast(page_events, er, items_on_page, target_items) ==
    IF er # <<>> /\ items_on_page < target_items
    THEN FillEventsPopLast(Append(page_events, er[Len(er)]),
                           SubSeq(er, 1, Len(er) - 1),
                           items_on_page + 1, target_items)
    ELSE [got |-> page_events, rest |-> er, items |-> items_on_page]

\* while events_remaining and items_on_page < target_items: pop(0), append
RECURSIVE FillEvents(_, _, _, _)
FillEvents(page_events, er, items_on_page, target_items) ==
    IF er # <<>> /\ items_on_page < target_items
    THEN FillEvents(Append(page_events, Head(er)), Tail(er),
                    items_on_page + 1, target_items)
    ELSE [got |-> page_events, rest |-> er, items |-> items_on_page]

\* while tasks_remaining and items_on_page < target_items: pop(0), append
RECURSIVE FillTasks(_, _, _, _)
FillTasks(page_tasks, tr, items_on_page, target_items) ==
    IF tr # <<>> /\ items_on_page < target_items
    THEN FillTasks(Append(page_tasks, Head(tr)), Tail(tr),
                   items_on_page + 1, target_items)
    ELSE [got |-> page_tasks, rest |-> tr, items |-> items_on_page]

\* Variant: a page is filled with tasks first, then with events.
FillPageTasksFirst(er, tr, target_items, idx, n_targets, cap) ==
    LET ft == FillTasks(<<>>, tr, 0, target_items)
        fe == FillEvents(<<>>, er, ft.items, target_items)
    IN  [page |-> [events |-> fe.got, tasks |-> ft.got],
         er |-> fe.rest, tr |-> ft.rest]

\* Variant: the one-extra-item top-up is made on every page but the last,
\* whether or not the page is under its target.
FillPageAlwaysTopUp(er, tr, target_items, idx, n_targets, cap) ==
    LET fe == FillEvents(<<>>, er, 0, target_items)
        ft == FillTasks(<<>>, tr, fe.items, target_items)
        more == idx < n_targets - 1
    IN  IF more /\ fe.rest # <<>>
        THEN [page |-> [events |-> Append(fe.got, Head(fe.rest)), tasks |-> ft.got],
              er |-> Tail(fe.rest), tr |-> ft.rest]
        ELSE IF more /\ ft.rest # <<>>
        THEN [page |-> [events |-> fe.got, tasks |-> Append(ft.got, Head(ft.rest))],
              er |-> fe.rest, tr |-> Tail(ft.rest)]
        ELSE [page |-> [events |-> fe.got, tasks |-> ft.got],
              er |-> fe.rest, tr |-> ft.rest]

\* One iteration of the page loop: events first, then tasks, then the
\* one-extra-item top-up of a short page that is not the last.
\* idx is the 0-based page_idx of the code, n_targets is len(page_targets).
FillPage(er, tr, target_items, idx, n_targets, cap) ==
    LET fe == FillEvents(<<>>, er, 0, target_items)
        ft == FillTasks(<<>>, tr, fe.items, target_items)
        short == ft.items < target_items /\ idx < n_targets - 1 /\ ft.items < cap
    IN  IF short /\ fe.rest # <<>>
        THEN [page |-> [events |-> Append(fe.got, Head(fe.rest)), tasks |-> ft.got],
              er |-> Tail(fe.rest), tr |-> ft.rest]
        ELSE IF short /\ ft.rest # <<>>
        THEN [page |-> [events |-> fe.got, tasks |-> Append(ft.got, Head(ft.rest))],
              er |-> fe.rest, tr |-> Tail(ft.rest)]
        ELSE [page |-> [events |-> fe.got, tasks |-> ft.got],
              er |-> fe.rest, tr |-> ft.rest]

\* "Handle any remaining items": top the last page up to capacity, then put
\* what is still left on a new trailing page.
HandleRemaining(ps, er, tr, cap) ==
    IF er = <<>> /\ tr = <<>> THEN ps
    ELSE
      LET n    == Len(ps)
          last == ps[n]
          room == IF n > 0 /\ PageTotal(last) < cap THEN cap - PageTotal(last) ELSE 0
          ne   == Min2(room, Len(er))
          nt   == Min2(room - ne, Len(tr))
          topped == IF room > 0
                    THEN [ps EXCEPT ![n] =
                            [events |-> last.events \o SubSeq(er, 1, ne),
                             tasks  |-> last.tasks \o SubSeq(tr, 1, nt)]]
                    ELSE ps
          er2 == SubSeq(er, ne + 1, Len(er))
          tr2 == SubSeq(tr, nt + 1, Len(tr))
      IN  IF er2 # <<>> \/ tr2 # <<>>
          THEN Append(topped, [events |-> er2, tasks |-> tr2])
          ELSE topped

Gate(ps, ev, ts, cap) ==
    IF validate_distribution_balance(ps, Len(ev), Len(ts), cap)
    THEN "passed" ELSE "failed"

\* The inputs the page distribution is run on: every small list, and lists
\* around the ItemLimit safety limit.
DistSizes ==
    ((0..MaxEvents) \X (0..MaxTasks))
      \cup ({ItemLimit - 1, ItemLimit, ItemLimit + 1} \X {0, 1})

Ids(n) == [i \in 1..n |-> i]

\* parse_events is not running.
ParseIdle ==
    /\ parse_pc = "idle"
    /\ ical_ok = TRUE
    /\ components = <<>>
    /\ timezone = 0
    /\ now = 0
    /\ master_events = <<>>
    /\ overrides = <<>>
    /\ cancelled_keys = {}
    /\ all_events = <<>>
    /\ origin = <<>>

\* main is not building page contexts.
MainIdle ==
    /\ main_pc = "idle"
    /\ today_events = <<>> /\ tomorrow_events = <<>> /\ max_per_page = 1
    /\ page_contexts = <<>> /\ global_page_number = 0 /\ built_for = <<>>

\* main has not been started.
RunIdle ==
    /\ run_pc = "idle"
    /\ argv = {} /\ on_path = {} /\ ssh_key_is_file = FALSE
    /\ template = "file" /\ remarkable_ip = FALSE /\ failing = {}
    /\ UPLOAD_DISABLED = <<>> /\ called = <<>>

\* convert_to_local is not running.
ConvIdle ==
    /\ conv_pc = "idle"
    /\ conv_dt = <<>> /\ conv_tz = <<>> /\ conv_result = <<>>

\* The validator is not running.
ValIdle ==
    /\ val_pc = "idle"
    /\ val_events = <<>>
    /\ issues = <<>>
    /\ cleaned_events = <<>>

DistInit ==
    /\ ValIdle
    /\ ParseIdle
    /\ ConvIdle
    /\ MainIdle
    /\ RunIdle
    /\ dist_pc = "call"
    /\ \E sz \in DistSizes : events = Ids(sz[1]) /\ tasks = Ids(sz[2])
    /\ max_items \in 1..MaxCap
    /\ page_targets = <<>>
    /\ page_idx = 0
    /\ events_remaining = <<>>
    /\ tasks_remaining = <<>>
    /\ pages = <<>>
    /\ validation = "not_run"

\* Entry of distribute_items_across_pages up to the page loop: the safety
\* limit, the two early returns, and the target computation.
DistEnter ==
    /\ dist_pc = "call"
    /\ LET total_items == Len(events) + Len(tasks)
       IN  IF TooManyItems(total_items)
           THEN /\ pages' = <<EmptyPage>>
                /\ validation' = "not_run"
                /\ dist_pc' = "returned"
                /\ UNCHANGED <<page_targets, page_idx, events_remaining, tasks_remaining>>
           ELSE IF events = <<>> /\ tasks = <<>>
           THEN /\ pages' = EmptyResult
                /\ validation' = Gate(EmptyResult, events, tasks, max_items)
                /\ dist_pc' = "returned"
                /\ UNCHANGED <<page_targets, page_idx, events_remaining, tasks_remaining>>
           ELSE IF total_items <= max_items
           THEN /\ pages' = <<[events |-> events, tasks |-> tasks]>>
                /\ validation' = Gate(pages', events, tasks, max_items)
                /\ dist_pc' = "returned"
                /\ UNCHANGED <<page_targets, page_idx, events_remaining, tasks_remaining>>
           ELSE /\ page_targets' = PageTargets(total_items, max_items)
                /\ page_idx' = 1
                /\ events_remaining' = events
                /\ tasks_remaining' = tasks
                /\ pages' = <<>>
                /\ dist_pc' = "fill"
                /\ UNCHANGED validation
    /\ UNCHANGED <<events, tasks, max_items>>
    /\ UNCHANGED val_vars
    /\ UNCHANGED parse_vars
    /\ UNCHANGED conv_vars
    /\ UNCHANGED main_vars
    /\ UNCHANGED run_vars

\* One iteration of "for page_idx, target_items in enumerate(page_targets)".
DistFillPage ==
    /\ dist_pc = "fill"
    /\ page_idx <= Len(page_targets)
    /\ LET r == FillPage(events_remaining, tasks_remaining, page_targets[page_idx],
                         page_idx - 1, Len(page_targets), max_items)
       IN  /\ pages' = Append(pages, r.page)
           /\ events_remaining' = r.er
           /\ tasks_remaining' = r.tr
    /\ page_idx' = page_idx + 1
    /\ UNCHANGED <<dist_pc, events, tasks, max_items, page_targets, validation>>
    /\ UNCHANGED val_vars
    /\ UNCHANGED parse_vars
    /\ UNCHANGED conv_vars
    /\ UNCHANGED main_vars
    /\ UNCHANGED run_vars

\* After the loop: leftover handling, the validation gate, return.
DistFinish ==
    /\ dist_pc = "fill"
    /\ page_idx > Len(page_targets)
    /\ pages' = HandleRemaining(pages, events_remaining, tasks_remaining, max_items)
    /\ events_remaining' = <<>>
    /\ tasks_remaining' = <<>>
    /\ validation' = Gate(pages', events, tasks, max_items)
    /\ dist_pc' = "returned"
    /\ UNCHANGED <<events, tasks, max_items, page_targets, page_idx>>
    /\ UNCHANGED val_vars
    /\ UNCHANGED parse_vars
    /\ UNCHANGED conv_vars
    /\ UNCHANGED main_vars
    /\ UNCHANGED run_vars

DistNext == DistEnter \/ DistFillPage \/ DistFinish

SpecDist == DistInit /\ [][DistNext]_vars

----------------------------------------------------------------------------
(* Properties of the page distribution.                                    *)

Returned == dist_pc = "returned"

TotalItems == Len(events) + Len(tasks)

\* Concatenation of ps[lo..hi]'s event lists (task lists), in page order.
RECURSIVE FlatEvents(_, _, _)
FlatEvents(ps, lo, hi) ==
    IF lo > hi THEN <<>>
    ELSE IF lo = hi THEN ps[lo].events
    ELSE LET mid == (lo + hi) \div 2
         IN  FlatEvents(ps, lo, mid) \o FlatEvents(ps, mid + 1, hi)

RECURSIVE FlatTasks(_, _, _)
FlatTasks(ps, lo, hi) ==
    IF lo > hi THEN <<>>
    ELSE IF lo = hi THEN ps[lo].tasks
    ELSE LET mid == (lo + hi) \div 2
         IN  FlatTasks(ps, lo, mid) \o FlatTasks(ps, mid + 1, hi)

Conserved ==
    /\ FlatEvents(pages, 1, Len(pages)) = events
    /\ FlatTasks(pages, 1, Len(pages)) = tasks

\* C1 (as claimed): for every event list, task list and max_items >= 1 the
\* returned pages' events, concatenated in page order, are the input events
\* in their order, and likewise the tasks.
C1_ConservationAnyInput == Returned => Conserved

\* C1 (amended): the same, for inputs of at most ItemLimit (1000) combined
\* items; nothing is lost, duplicated or reordered.
C1_Conservation == (Returned /\ TotalItems <= ItemLimit) => Conserved

\* C1 witness: a distribution over several pages, with events and tasks.
C1_Witness ==
    /\ Returned /\ Len(pages) >= 3 /\ Conserved
    /\ Len(events) >= 2 /\ Len(tasks) >= 2

\* C2: every returned page holds at most max_items combined items.
C2_Capacity ==
    Returned => \A k \in 1..Len(pages) : PageTotal(pages[k]) <= max_items

\* C2 witness: a several-page result with a page filled to capacity.
C2_Witness ==
    /\ Returned /\ Len(pages) > 1 /\ max_items >= 2
    /\ \E k \in 1..Len(pages) : PageTotal(pages[k]) = max_items

\* C3: with more than one page returned and more than 4 items per page on
\* average, the largest and the smallest page total differ by at most 3.
C3_Balance ==
    (Returned /\ Len(pages) > 1 /\ TotalItems > 4 * Len(pages))
        => MaxSeq(PageTotals(pages)) - MinSeq(PageTotals(pages)) <= 3

\* C3 witness: such a result, with unequal page totals.
C3_Witness ==
    /\ Returned /\ Len(pages) > 1 /\ TotalItems > 4 * Len(pages)
    /\ MaxSeq(PageTotals(pages)) > MinSeq(PageTotals(pages))

\* Page k (1-based) holds total // p items, plus one when k - 1 < total % p.
TargetShape ==
    LET p == (TotalItems + max_items - 1) \div max_items
    IN  /\ Len(pages) = p
        /\ \A k \in 1..Len(pages) :
              PageTotal(pages[k]) =
                 (TotalItems \div p) + (IF k - 1 < TotalItems % p THEN 1 ELSE 0)

\* C4 (as claimed): whenever total > max_items, exactly ceil(total/max_items)
\* pages are returned and they have the target shape.
C4_TargetShapeAnyInput == (Returned /\ TotalItems > max_items) => TargetShape

\* C4 (amended): the same, when max_items < total <= ItemLimit (1000).
C4_TargetShape ==
    (Returned /\ TotalItems > max_items /\ TotalItems <= ItemLimit) => TargetShape

\* C4 witness: 20 items with max_items = 8 give page totals [7, 7, 6].
C4_Witness ==
    /\ Returned /\ TotalItems = 20 /\ max_items = 8
    /\ PageTotals(pages) = <<7, 7, 6>>

SixAndFour == Len(events) = 6 /\ Len(tasks) = 4 /\ max_items = 6

\* C5 (as claimed): 6 events and 4 tasks with max_items = 6 yield a single
\* page holding the 6 events and no task.
C5_SinglePageAsClaimed ==
    (Returned /\ SixAndFour) => pages = <<[events |-> events, tasks |-> <<>>]>>

\* C5 (amended): 6 events and 4 tasks with max_items = 6 yield two pages of
\* 5 items: the first 5 events, then the sixth event with the 4 tasks.
C5_TwoBalancedPages ==
    (Returned /\ SixAndFour) =>
        pages = <<[events |-> SubSeq(events, 1, 5), tasks |-> <<>>],
                  [events |-> SubSeq(events, 6, 6), tasks |-> tasks]>>

\* C5 witness: that call has returned.
C5_Witness == Returned /\ SixAndFour /\ Len(pages) = 2

\* C6: with no events and no tasks the call returns exactly one page, whose
\* events and tasks are both empty.
C6_EmptyInput ==
    (Returned /\ events = <<>> /\ tasks = <<>>) =>
        pages = <<[events |-> <<>>, tasks |-> <<>>]>>

\* C6 witness: the call on two empty lists has returned.
C6_Witness == Returned /\ events = <<>> /\ tasks = <<>> /\ validation = "passed"

----------------------------------------------------------------------------
(* Text.  A string is the sequence of its code points, so that lower(),    *)
(* the substring test and the ordering of strings are computed.            *)

TxtEmpty    == <<>>
Txt_a       == <<97>>                                  \* "a"
Txt_B       == <<66>>                                  \* "B"
TxtCanceled == <<67, 97, 110, 99, 101, 108, 101, 100>> \* "Canceled"
TxtCancel   == <<99, 97, 110, 99, 101, 108>>           \* "cancel"

\* str.lower() on ASCII text.
Lower(s) == [i \in 1..Len(s) |-> IF s[i] \in 65..90 THEN s[i] + 32 ELSE s[i]]

\* needle in hay
Contains(hay, needle) ==
    \E i \in 0..(Len(hay) - Len(needle)) : SubSeq(hay, i + 1, i + Len(needle)) = needle

\* a < b for Python strings: by code point, a proper prefix being smaller.
StrLess(a, b) ==
    \E i \in 1..Len(b) :
        /\ \A j \in 1..(i - 1) : j <= Len(a) /\ a[j] = b[j]
        /\ (i > Len(a) \/ a[i] < b[i])

----------------------------------------------------------------------------
(* validate_events.  begin_local and end_local are instants of the local   *)
(* timezone, counted in hours from the midnight that starts day 0.         *)

HoursPerDay == 24

\* None, and a value v that is not None, as a Python variable may hold them.
None == <<>>
Some(v) == <<v>>

\* arrow.floor('day')
FloorDay(t) == (t \div HoursPerDay) * HoursPerDay

\* timedelta.days of a difference of instants
DeltaDays(d) == d \div HoursPerDay

\* str() of an instant: the ISO text, here its date and its time of day.
StrTime(t) == <<t \div HoursPerDay, t % HoursPerDay>>

\* key = (summary, str(begin_local), str(end_local), all_day)
EventKey(e) == <<e.summary, StrTime(e.begin_local), StrTime(e.end_local), e.all_day>>

\* "cancel" in summary_str.lower() + description_str.lower()
LooksCancelled(e) == Contains(Lower(e.summary) \o Lower(e.description), TxtCancel)

\* all-day bleed: (end_day - begin_day).days > 1
Bleeds(e) ==
    e.all_day /\ DeltaDays(FloorDay(e.end_local) - FloorDay(e.begin_local)) > 1

Issue(kind, e) == [kind |-> kind, summary |-> e.summary, begin |-> e.begin_local]

\* Variant: a key is remembered only when its event is kept.
SeenAfterKeptOnly(seen, key, duplicate, cancelled) ==
    IF duplicate \/ cancelled THEN seen ELSE seen \cup {key}

\* seen.add(key) in the else branch of the duplicate check
SeenAfter(seen, key, duplicate, cancelled) ==
    IF duplicate THEN seen ELSE seen \cup {key}

\* Variant: a duplicate is logged but kept.
KeepEventDespiteDuplicate(duplicate, cancelled) == ~cancelled

\* "if not duplicate and not cancelled: fixed_events.append(event)"
KeepEvent(duplicate, cancelled) == ~duplicate /\ ~cancelled

\* One iteration of the audit loop on event e, from loop state st.
AuditStep(st, e) ==
    LET key        == EventKey(e)
        duplicate  == key \in st.seen
        is1 == IF duplicate THEN Append(st.issues, Issue("duplicate", e)) ELSE st.issues
        swept      == LooksCancelled(e)
        is2 == IF swept THEN Append(is1, Issue("cancelled", e)) ELSE is1
        bleeds     == Bleeds(e)
        is3 == IF bleeds THEN Append(is2, Issue("bleed", e)) ELSE is2
        cancelled  == swept \/ bleeds
        day        == FloorDay(e.begin_local)
        is4 == IF st.last_day # None /\ day < st.last_day[1]
               THEN Append(is3, Issue("out_of_order_day", e)) ELSE is3
        is5 == IF st.last_day = Some(day) /\ st.last_time # None
                  /\ e.begin_local < st.last_time[1]
               THEN Append(is4, Issue("out_of_order_time", e)) ELSE is4
    IN  [seen         |-> SeenAfter(st.seen, key, duplicate, cancelled),
         last_day     |-> Some(day),
         last_time    |-> Some(e.begin_local),
         issues       |-> is5,
         fixed_events |-> IF KeepEvent(duplicate, cancelled)
                          THEN Append(st.fixed_events, e) ELSE st.fixed_events]

\* for i, event in enumerate(events): ...
RECURSIVE AuditLoop(_, _, _)
AuditLoop(evs, i, st) ==
    IF i > Len(evs) THEN st ELSE AuditLoop(evs, i + 1, AuditStep(st, evs[i]))

AuditStart ==
    [seen |-> {}, last_day |-> None, last_time |-> None,
     issues |-> <<>>, fixed_events |-> <<>>]

\* The sort key (e["begin_local"], e["summary"]) compared as Python tuples.
SortKeyLess(a, b) ==
    \/ a.begin_local < b.begin_local
    \/ a.begin_local = b.begin_local /\ StrLess(a.summary, b.summary)

\* Variant: x goes before the elements with an equal key (an unstable sort).
RECURSIVE InsertSortedBeforeTies(_, _)
InsertSortedBeforeTies(srt, x) ==
    IF srt = <<>> THEN <<x>>
    ELSE IF ~SortKeyLess(Head(srt), x) THEN <<x>> \o srt
    ELSE <<Head(srt)>> \o InsertSortedBeforeTies(Tail(srt), x)

\* list.sort is stable: x goes after every element whose key is not greater.
RECURSIVE InsertSorted(_, _)
InsertSorted(srt, x) ==
    IF srt = <<>> THEN <<x>>
    ELSE IF SortKeyLess(x, Head(srt)) THEN <<x>> \o srt
    ELSE <<Head(srt)>> \o InsertSorted(Tail(srt), x)

RECURSIVE SortFrom(_, _, _)
SortFrom(lst, i, srt) ==
    IF i > Len(lst) THEN srt ELSE SortFrom(lst, i + 1, InsertSorted(srt, lst[i]))

\* lst.sort(key=lambda e: (e["begin_local"], e["summary"]))
SortByBeginSummary(lst) == SortFrom(lst, 1, <<>>)

\* [e for e in lst if P(e)]
RECURSIVE SelectFrom(_, _, _)
SelectFrom(lst, i, keep) ==
    IF i > Len(lst) THEN <<>>
    ELSE (IF keep[i] THEN <<lst[i]>> ELSE <<>>) \o SelectFrom(lst, i + 1, keep)

\* events_by_day[day]
DayEvents(lst, day) ==
    SelectFrom(lst, 1, [i \in 1..Len(lst) |-> FloorDay(lst[i].begin_local) = day])

\* Variant: the timed events of a day come before its all-day events.
DayBlockTimedFirst(day_events) ==
    LET all_day == SelectFrom(day_events, 1,
                       [i \in 1..Len(day_events) |-> day_events[i].all_day])
        timed   == SelectFrom(day_events, 1,
                       [i \in 1..Len(day_events) |-> ~day_events[i].all_day])
    IN  SortByBeginSummary(timed) \o SortByBeginSummary(all_day)

\* all_day + timed of one day, each sorted
DayBlock(day_events) ==
    LET all_day == SelectFrom(day_events, 1,
                       [i \in 1..Len(day_events) |-> day_events[i].all_day])
        timed   == SelectFrom(day_events, 1,
                       [i \in 1..Len(day_events) |-> ~day_events[i].all_day])
    IN  SortByBeginSummary(all_day) \o SortByBeginSummary(timed)

\* for day in sorted(events_by_day.keys()): cleaned_events.extend(...)
RECURSIVE GroupFrom(_, _)
GroupFrom(lst, days) ==
    IF days = {} THEN <<>>
    ELSE LET day == CHOOSE d \in days : \A o \in days : d <= o
         IN  DayBlock(DayEvents(lst, day)) \o GroupFrom(lst, days \ {day})

GroupAndSort(fixed_events) ==
    GroupFrom(fixed_events,
              {FloorDay(fixed_events[i].begin_local) : i \in 1..Len(fixed_events)})

\* validate_events: the cleaned list and the issues found.
validate_events(evs) ==
    LET st == AuditLoop(evs, 1, AuditStart)
    IN  [cleaned_events |-> GroupAndSort(st.fixed_events),
         issues         |-> st.issues,
         fixed_events   |-> st.fixed_events]

\* The events the validator is run on.
ValSummaries    == {Txt_a, Txt_B}
ValDescriptions == {TxtEmpty, TxtCanceled}
ValBegins       == {0, 9, 24, 33}
ValDurations    == {1, 48}

ValEventDomain ==
    {[summary |-> s0, description |-> d0, begin_local |-> b0,
      end_local |-> b0 + u0, all_day |-> a0] :
        s0 \in ValSummaries, d0 \in ValDescriptions, b0 \in ValBegins,
        u0 \in ValDurations, a0 \in BOOLEAN}

SeqsUpTo(S, n) == UNION {[1..k -> S] : k \in 0..n}

\* The page distribution is not running.
DistIdle ==
    /\ dist_pc = "idle"
    /\ events = <<>> /\ tasks = <<>> /\ max_items = 1
    /\ page_targets = <<>> /\ page_idx = 0
    /\ events_remaining = <<>> /\ tasks_remaining = <<>>
    /\ pages = <<>> /\ validation = "not_run"

ValInit ==
    /\ DistIdle
    /\ ParseIdle
    /\ ConvIdle
    /\ MainIdle
    /\ RunIdle
    /\ val_pc = "call"
    /\ val_events \in SeqsUpTo(ValEventDomain, MaxValLen)
    /\ issues = <<>>
    /\ cleaned_events = <<>>

\* validate_events(events), from the call to the return.
Validate ==
    /\ val_pc = "call"
    /\ LET r == validate_events(val_events)
       IN  /\ cleaned_events' = r.cleaned_events
           /\ issues' = r.issues
    /\ val_pc' = "returned"
    /\ UNCHANGED val_events
    /\ UNCHANGED dist_vars
    /\ UNCHANGED parse_vars
    /\ UNCHANGED conv_vars
    /\ UNCHANGED main_vars
    /\ UNCHANGED run_vars

ValNext == Validate

SpecVal == ValInit /\ [][ValNext]_vars

----------------------------------------------------------------------------
(* Properties of validate_events.                                          *)

ValReturned == val_pc = "returned"

\* C7: validate_events is idempotent: run on its own output it returns that
\* output, having removed nothing in its audit loop and reordered nothing.
C7_Idempotent ==
    ValReturned =>
        LET again == validate_events(cleaned_events)
        IN  /\ again.cleaned_events = cleaned_events
            /\ again.fixed_events = cleaned_events

\* C7 witness: a run that returned two different events of one group (both
\* all-day or both timed) whose sort keys (begin, summary) are equal.
C7_Witness ==
    /\ ValReturned /\ Len(cleaned_events) = 2 /\ Len(val_events) = 2
    /\ cleaned_events[1] # cleaned_events[2]
    /\ ~SortKeyLess(cleaned_events[1], cleaned_events[2])
    /\ ~SortKeyLess(cleaned_events[2], cleaned_events[1])
    /\ cleaned_events[1].all_day = cleaned_events[2].all_day

\* C8: in the returned list the start days ascend, within one start day
\* every all-day event precedes every timed event, and the all-day events
\* and the timed events of a day are each sorted by (begin, summary).
C8_Ordered ==
    ValReturned =>
        \A i, j \in 1..Len(cleaned_events) :
            i < j =>
                LET a == cleaned_events[i]
                    b == cleaned_events[j]
                IN  /\ FloorDay(a.begin_local) <= FloorDay(b.begin_local)
                    /\ FloorDay(a.begin_local) = FloorDay(b.begin_local)
                         => /\ ~(~a.all_day /\ b.all_day)
                            /\ a.all_day = b.all_day => ~SortKeyLess(b, a)

\* C8 witness: a timed event given before an all-day event of the same day
\* that starts later in the day; the all-day event is returned first.
C8_Witness ==
    /\ ValReturned /\ Len(val_events) = 2 /\ Len(cleaned_events) = 2
    /\ ~val_events[1].all_day /\ val_events[2].all_day
    /\ FloorDay(val_events[1].begin_local) = FloorDay(val_events[2].begin_local)
    /\ val_events[1].begin_local < val_events[2].begin_local
    /\ cleaned_events = <<val_events[2], val_events[1]>>

\* Input positions: the first occurrence of a key that occurs again, and the
\* later occurrences of a key.
IsLater(i) ==
    \E j \in 1..(i - 1) : EventKey(val_events[j]) = EventKey(val_events[i])

IsSharedFirst(i) ==
    /\ ~IsLater(i)
    /\ \E j \in (i + 1)..Len(val_events) :
           EventKey(val_events[j]) = EventKey(val_events[i])

ReturnedWithKey(key) ==
    {k \in 1..Len(cleaned_events) : EventKey(cleaned_events[k]) = key}

\* The first occurrence is in the output and nothing else with its key is.
FirstRetainedAlone(i) ==
    /\ Cardinality(ReturnedWithKey(EventKey(val_events[i]))) = 1
    /\ \A k \in ReturnedWithKey(EventKey(val_events[i])) :
           cleaned_events[k] = val_events[i]

\* Every later occurrence is recorded as a duplicate, in input order.
DuplicatesRecorded ==
    SelectFrom(issues, 1, [k \in 1..Len(issues) |-> issues[k].kind = "duplicate"])
      = SelectFrom([i \in 1..Len(val_events) |-> Issue("duplicate", val_events[i])],
                   1, [i \in 1..Len(val_events) |-> IsLater(i)])

\* C9 (as claimed): among the input events that share an identity key the
\* first is retained in the output, every later one is dropped, and each
\* dropped duplicate is recorded as an issue.
C9_FirstWinsAsClaimed ==
    ValReturned =>
        /\ \A i \in 1..Len(val_events) : IsSharedFirst(i) => FirstRetainedAlone(i)
        /\ DuplicatesRecorded

\* C9 (amended): the first occurrence is retained unless the cancellation
\* sweep or the all-day bleed check removes it; every later occurrence is
\* dropped (so nothing with the key is returned when the first is removed),
\* and each dropped duplicate is recorded as an issue.
C9_FirstWins ==
    ValReturned =>
        /\ \A i \in 1..Len(val_events) :
              IsSharedFirst(i) =>
                 IF LooksCancelled(val_events[i]) \/ Bleeds(val_events[i])
                 THEN ReturnedWithKey(EventKey(val_events[i])) = {}
                 ELSE FirstRetainedAlone(i)
        /\ DuplicatesRecorded

\* C9 witness: two events with one key and different descriptions; the
\* first is returned, the second is dropped and recorded.
C9_Witness ==
    /\ ValReturned /\ Len(val_events) = 2
    /\ EventKey(val_events[1]) = EventKey(val_events[2])
    /\ val_events[1] # val_events[2]
    /\ cleaned_events = <<val_events[1]>>
    /\ \E k \in 1..Len(issues) : issues[k] = Issue("duplicate", val_events[2])

----------------------------------------------------------------------------
(* Calendar values.  The .dt of DTSTART, DTEND, RECURRENCE-ID or EXDATE is *)
(* a date, a naive datetime or a timezone-aware datetime:                  *)
(*   kind "date":  t is the day number,                                    *)
(*   kind "naive": t is the wall-clock time in hours,                      *)
(*   kind "aware": t is the instant in hours UTC, off the UTC offset of    *)
(*                 its tzinfo.                                             *)
(* An Arrow is [utc |-> instant in hours, off |-> offset of its timezone]. *)

DateVal(d)       == [kind |-> "date",  t |-> d, off |-> 0]
NaiveVal(w)      == [kind |-> "naive", t |-> w, off |-> 0]
AwareVal(u, o)   == [kind |-> "aware", t |-> u, off |-> o]

\* isinstance(v, date) and not isinstance(v, datetime)
IsDateOnly(v) == v.kind = "date"

\* isinstance(v, datetime)
IsDatetime(v) == v.kind \in {"naive", "aware"}

\* The value as a dictionary or set key: equal values are one key; aware
\* datetimes are equal when they are the same instant.
DtKey(v) == IF v.kind = "aware" THEN [v EXCEPT !.off = 0] ELSE v

\* a == b
DtEq(a, b) == DtKey(a) = DtKey(b)

\* arrow.get(v).to(timezone_str): a date is read as midnight UTC, a naive
\* datetime as UTC, an aware datetime keeps its instant.
ArrowGetTo(v, tz) ==
    [utc |-> IF v.kind = "date" THEN v.t * HoursPerDay ELSE v.t, off |-> tz]

\* Wall-clock time of an Arrow in its own timezone (.naive).
ArrowWall(a) == a.utc + a.off

----------------------------------------------------------------------------
(* parse_events, Pass 1: classification.                                   *)

TxtCANCELLED == <<67, 65, 78, 67, 69, 76, 76, 69, 68>>               \* "CANCELLED"
TxtCancelled == <<99, 97, 110, 99, 101, 108, 108, 101, 100>>         \* "cancelled"
TxtCanceledLc == <<99, 97, 110, 99, 101, 108, 101, 100>>             \* "canceled"
TxtOpaque    == <<111, 112, 97, 113, 117, 101>>                      \* "opaque"

\* str.upper() on ASCII text.
Upper(s) == [i \in 1..Len(s) |-> IF s[i] \in 97..122 THEN s[i] - 32 ELSE s[i]]

\* key = (uid, recurrence_id.dt if recurrence_id ... else None)
ComponentKey(c) ==
    <<c.uid, IF c.recurrence_id = None THEN None ELSE Some(DtKey(c.recurrence_id[1]))>>

\* (uid, occ)
OccKey(uid, occ) == <<uid, Some(DtKey(occ))>>

\* "cancelled" or "canceled" in summary.lower() or in description.lower()
TextSaysCancelled(c) ==
    \/ Contains(Lower(c.summary), TxtCancelled)
    \/ Contains(Lower(c.summary), TxtCanceledLc)
    \/ Contains(Lower(c.description), TxtCancelled)
    \/ Contains(Lower(c.description), TxtCanceledLc)

\* dtend - dtstart raises TypeError: a date start with a datetime end.
SpanRaises(c) ==
    /\ c.dtstart # None /\ c.dtend # None
    /\ IsDateOnly(c.dtstart[1]) /\ ~IsDateOnly(c.dtend[1])

\* all-day start, (dtend - dtstart).days > 1 and not summary
UnnamedMultiDay(c) ==
    /\ c.dtstart # None /\ c.dtend # None
    /\ IsDateOnly(c.dtstart[1]) /\ IsDateOnly(c.dtend[1])
    /\ c.dtend[1].t - c.dtstart[1].t > 1
    /\ c.summary = TxtEmpty

\* Variant: the span of the component is not looked at.
IsCancelledIgnoringSpan(c) ==
    \/ Upper(c.status) = TxtCANCELLED
    \/ TextSaysCancelled(c)
    \/ (Lower(c.transp) = TxtOpaque /\ c.dtstart = None)
    \/ /\ c.recurrence_id # None
       /\ \/ Upper(c.status) = TxtCANCELLED
          \/ (c.summary = TxtEmpty /\ c.location = TxtEmpty /\ c.description = TxtEmpty)

\* Variant: the texts of the component are not looked at.
IsCancelledIgnoringText(c) ==
    \/ Upper(c.status) = TxtCANCELLED
    \/ (Lower(c.transp) = TxtOpaque /\ c.dtstart = None)
    \/ UnnamedMultiDay(c)
    \/ /\ c.recurrence_id # None
       /\ \/ Upper(c.status) = TxtCANCELLED
          \/ (c.summary = TxtEmpty /\ c.location = TxtEmpty /\ c.description = TxtEmpty)

\* The cancellation verdict of Pass 1.
IsCancelled(c) ==
    \/ Upper(c.status) = TxtCANCELLED
    \/ TextSaysCancelled(c)
    \/ (Lower(c.transp) = TxtOpaque /\ c.dtstart = None)
    \/ UnnamedMultiDay(c)
    \/ /\ c.recurrence_id # None
       /\ \/ Upper(c.status) = TxtCANCELLED
          \/ (c.summary = TxtEmpty /\ c.location = TxtEmpty /\ c.description = TxtEmpty)

\* overrides[key] = component
DictPut(d, key, val) ==
    [k \in (DOMAIN d) \cup {key} |-> IF k = key THEN val ELSE d[k]]

\* Variant: a single pass, in which a cancellation or an override counts
\* only when a master with its UID has been met before it.
ClassifyStepMasterFirst(st, c) ==
    LET known == \E m \in 1..Len(st.master_events) : st.master_events[m].uid = c.uid
    IN  IF SpanRaises(c) THEN [st EXCEPT !.raised = TRUE]
        ELSE IF IsCancelled(c)
        THEN IF known THEN [st EXCEPT !.cancelled_keys = @ \cup {ComponentKey(c)}]
             ELSE st
        ELSE IF c.recurrence_id # None
        THEN IF known THEN [st EXCEPT !.overrides = DictPut(@, ComponentKey(c), c)]
             ELSE st
        ELSE [st EXCEPT !.master_events = Append(@, c)]

\* One iteration of the Pass 1 loop.
ClassifyStep(st, c) ==
    IF SpanRaises(c) THEN [st EXCEPT !.raised = TRUE]
    ELSE IF IsCancelled(c)
    THEN [st EXCEPT !.cancelled_keys = @ \cup {ComponentKey(c)}]
    ELSE IF c.recurrence_id # None
    THEN [st EXCEPT !.overrides = DictPut(@, ComponentKey(c), c)]
    ELSE [st EXCEPT !.master_events = Append(@, c)]

\* for component in cal.walk(): ...   (an exception ends the loop)
RECURSIVE ClassifyLoop(_, _, _)
ClassifyLoop(comps, i, st) ==
    IF i > Len(comps) \/ st.raised THEN st
    ELSE ClassifyLoop(comps, i + 1, ClassifyStep(st, comps[i]))

Pass1(comps) ==
    ClassifyLoop(comps, 1,
        [master_events |-> <<>>, overrides |-> <<>>, cancelled_keys |-> {},
         raised |-> FALSE])

----------------------------------------------------------------------------
(* parse_events, Pass 2: expansion.                                        *)

\* timedelta(hours=1), the default duration
DefaultDuration == 1

\* timedelta(days=2), the length of the expansion window
WindowDays == 2

\* dtend of a master after the defaulting of a missing DTEND.
DefaultedEnd(dtstart, dtend) ==
    IF dtend = None /\ dtstart # None
    THEN IF IsDateOnly(dtstart[1]) THEN dtstart
         ELSE Some([dtstart[1] EXCEPT !.t = @ + DefaultDuration])
    ELSE dtend

\* A recurrence rule FREQ=DAILY;INTERVAL=interval[;COUNT=count][;UNTIL=until].
\* until is [t |-> hours, utc |-> TRUE for the form ...Z].
\* convert_rrule_until_to_naive: a UTC UNTIL becomes naive local time.
convert_rrule_until_to_naive(rule, tz) ==
    IF rule.until # None /\ rule.until[1].utc
    THEN [rule EXCEPT !.until = Some([t |-> rule.until[1].t + tz, utc |-> FALSE])]
    ELSE rule

\* The rule text handed to rrulestr.
RuleText(rule, dtstart, tz) ==
    IF dtstart.kind = "aware" THEN convert_rrule_until_to_naive(rule, tz) ELSE rule

\* The naive datetime handed to rrulestr as dtstart, in hours.
RuleDtstart(dtstart, tz) ==
    CASE dtstart.kind = "aware" -> dtstart.t + tz
      [] dtstart.kind = "date"  -> dtstart.t * HoursPerDay
      [] OTHER                  -> dtstart.t

\* rrulestr raises: the anchor is naive, so an UNTIL left in UTC is refused.
RuleParseFails(rule, dtstart, tz) ==
    LET txt == RuleText(rule, dtstart, tz)
    IN  txt.until # None /\ txt.until[1].utc

\* The i-th occurrence of the rule is generated.
RuleHas(rule, r, i) ==
    LET t == r + i * rule.interval * HoursPerDay
    IN  /\ (rule.count = None \/ i < rule.count[1])
        /\ (rule.until = None \/ t <= rule.until[1].t)

\* rule.between(a, b, inc=True), ascending.
RECURSIVE BetweenFrom(_, _, _, _, _)
BetweenFrom(rule, r, a, b, i) ==
    LET t == r + i * rule.interval * HoursPerDay
    IN  IF t > b \/ ~RuleHas(rule, r, i) THEN <<>>
        ELSE (IF t >= a THEN <<t>> ELSE <<>>)
             \o BetweenFrom(rule, r, a, b, i + 1)

Between(rule, r, a, b) == BetweenFrom(rule, r, a, b, 0)

\* window_start = arrow.now(timezone_str).floor('day'), as local wall-clock time
WindowStart(n, tz) == FloorDay(n + tz)

\* window_end = window_start + timedelta(days=2)
WindowEnd(n, tz) == WindowStart(n, tz) + WindowDays * HoursPerDay

\* The occurrences of a master inside the window, as values of the kind of
\* its DTSTART.
Occurrences(rule, dtstart, n, tz) ==
    LET txt == RuleText(rule, dtstart, tz)
        r   == RuleDtstart(dtstart, tz)
        occ == Between(txt, r, WindowStart(n, tz), WindowEnd(n, tz))
    IN  [i \in 1..Len(occ) |->
            CASE dtstart.kind = "aware" -> AwareVal(occ[i] - tz, dtstart.off)
              [] dtstart.kind = "date"  -> DateVal(occ[i] \div HoursPerDay)
              [] OTHER                  -> NaiveVal(occ[i])]

\* occ in exdates
InExdates(occ, exdates) == \E i \in 1..Len(exdates) : DtEq(occ, exdates[i])

\* duration = dtend - dtstart when both are datetimes or both are dates; the
\* default when the types differ or the subtraction raises (aware and naive).
Duration(dtstart, dtend) ==
    IF dtend = None \/ dtstart = None THEN DefaultDuration
    ELSE IF dtstart[1].kind = dtend[1].kind
    THEN IF IsDateOnly(dtstart[1])
         THEN (dtend[1].t - dtstart[1].t) * HoursPerDay
         ELSE dtend[1].t - dtstart[1].t
    ELSE DefaultDuration

\* dtstart_inst + duration; a date moves by whole days only.
PlusDuration(v, d) ==
    IF IsDateOnly(v) THEN [v EXCEPT !.t = @ + DeltaDays(d)]
    ELSE [v EXCEPT !.t = @ + d]

\* The dictionary appended to all_events.
EventDict(uid, content, dtstart_inst, dtend_inst, tz, recurring) ==
    [uid          |-> uid,
     summary      |-> content.summary,
     description  |-> content.description,
     location     |-> content.location,
     begin_local  |-> ArrowGetTo(dtstart_inst, tz),
     end_local    |-> ArrowGetTo(dtend_inst, tz),
     all_day      |-> IsDateOnly(dtstart_inst),
     is_recurring |-> recurring]

\* Variant: the overrides are not consulted.
InstanceFromMasterOnly(event, dtstart, dtend, occ, ovr, tz) ==
    EventDict(event.uid, event, occ,
              PlusDuration(occ, Duration(dtstart, dtend)), tz, TRUE)

\* The instance of one occurrence that is not excluded.
Instance(event, dtstart, dtend, occ, ovr, tz) ==
    LET occ_key == OccKey(event.uid, occ)
    IN  IF occ_key \in DOMAIN ovr
        THEN LET comp == ovr[occ_key]
                 dtstart_inst == IF comp.dtstart # None THEN comp.dtstart[1] ELSE occ
                 dtend_inst   == IF comp.dtend # None THEN comp.dtend[1] ELSE dtstart_inst
             IN  EventDict(event.uid, comp, dtstart_inst, dtend_inst, tz, TRUE)
        ELSE EventDict(event.uid, event, occ,
                       PlusDuration(occ, Duration(dtstart, dtend)), tz, TRUE)

\* for occ in occurrences: ...   the instances and, beside each, its anchor.
RECURSIVE OccLoop(_, _, _, _, _, _, _, _, _)
OccLoop(event, dtstart, dtend, occs, i, ovr, ck, tz, idx) ==
    IF i > Len(occs) THEN [all_events |-> <<>>, origin |-> <<>>]
    ELSE LET occ  == occs[i]
             rest == OccLoop(event, dtstart, dtend, occs, i + 1, ovr, ck, tz, idx)
         IN  IF InExdates(occ, event.exdate) \/ OccKey(event.uid, occ) \in ck
             THEN rest
             ELSE [all_events |->
                       <<Instance(event, dtstart, dtend, occ, ovr, tz)>> \o rest.all_events,
                   origin |->
                       <<[master |-> idx, occ |-> Some(occ),
                          from_override |-> OccKey(event.uid, occ) \in DOMAIN ovr]>>
                       \o rest.origin]

\* One iteration of the Pass 2 loop: what one master adds to all_events.
ExpandMaster(event, idx, ovr, ck, n, tz) ==
    LET nothing == [all_events |-> <<>>, origin |-> <<>>]
        dtend   == DefaultedEnd(event.dtstart, event.dtend)
    IN  IF <<event.uid, None>> \in ck THEN nothing
        ELSE IF event.dtstart = None THEN nothing
        ELSE IF event.rrule # None
        THEN IF RuleParseFails(event.rrule[1], event.dtstart[1], tz) THEN nothing
             ELSE OccLoop(event, event.dtstart, dtend,
                          Occurrences(event.rrule[1], event.dtstart[1], n, tz),
                          1, ovr, ck, tz, idx)
        ELSE [all_events |->
                  <<EventDict(event.uid, event, event.dtstart[1], dtend[1], tz, FALSE)>>,
              origin |-> <<[master |-> idx, occ |-> None, from_override |-> FALSE]>>]

\* The rule of the master is refused by rrulestr: the master is skipped.
MasterRuleFails(event, tz) ==
    /\ event.rrule # None /\ event.dtstart # None
    /\ RuleParseFails(event.rrule[1], event.dtstart[1], tz)

\* Variant: an exception leaves parse_events.
AfterExceptionPropagates == "raised"

\* Variant: the first master whose rule is refused ends the loop.
RECURSIVE Pass2StopAtFailure(_, _, _, _, _, _)
Pass2StopAtFailure(masters, i, ovr, ck, n, tz) ==
    IF i > Len(masters) \/ MasterRuleFails(masters[i], tz)
    THEN [all_events |-> <<>>, origin |-> <<>>]
    ELSE LET one  == ExpandMaster(masters[i], i, ovr, ck, n, tz)
             rest == Pass2StopAtFailure(masters, i + 1, ovr, ck, n, tz)
         IN  [all_events |-> one.all_events \o rest.all_events,
              origin     |-> one.origin \o rest.origin]

\* for event in master_events: ...
RECURSIVE Pass2(_, _, _, _, _, _)
Pass2(masters, i, ovr, ck, n, tz) ==
    IF i > Len(masters) THEN [all_events |-> <<>>, origin |-> <<>>]
    ELSE LET one  == ExpandMaster(masters[i], i, ovr, ck, n, tz)
             rest == Pass2(masters, i + 1, ovr, ck, n, tz)
         IN  [all_events |-> one.all_events \o rest.all_events,
              origin     |-> one.origin \o rest.origin]

\* try: ... except Exception: the exception is logged and parse_events goes
\* on to its return statement.
AfterException == "returned"

\* The try block of parse_events raises before Pass 2: from_ical refuses the
\* text, or Pass 1 raises.
RaisesEarly(ok, comps) == ~ok \/ Pass1(comps).raised

\* The list parse_events returns for a payload: empty when the try block
\* raises before Pass 2.
parse_events(ok, comps, n, tz) ==
    LET st == Pass1(comps)
    IN  IF RaisesEarly(ok, comps) THEN <<>>
        ELSE Pass2(st.master_events, 1, st.overrides, st.cancelled_keys, n, tz).all_events

----------------------------------------------------------------------------
(* The calendar payloads and the run of parse_events.                      *)

\* Midnight of day d, in hours.
Day(d) == d * HoursPerDay

\* A VEVENT; DESCRIPTION, LOCATION and TRANSP are absent.
VEvent(uid, rid, status, summary, dtstart, dtend, rrule, exdate) ==
    [uid |-> uid, recurrence_id |-> rid, status |-> status,
     summary |-> summary, description |-> TxtEmpty, location |-> TxtEmpty,
     transp |-> TxtEmpty, dtstart |-> dtstart, dtend |-> dtend,
     rrule |-> rrule, exdate |-> exdate]

Daily          == [interval |-> 1, count |-> None, until |-> None]
DailyTwice     == [interval |-> 1, count |-> Some(2), until |-> None]
DailyUntilUtc  == [interval |-> 1, count |-> None,
                   until |-> Some([t |-> Day(30), utc |-> TRUE])]

\* DTSTART of the masters: an all-day date, a floating midnight and a zoned
\* morning, all on the day before "now".
MasterStarts == {DateVal(9), NaiveVal(Day(9)), AwareVal(Day(9) + 8, 1)}

\* The occurrence of each of these masters on day 11.
AnchorsDay11 == {DateVal(11), NaiveVal(Day(11)), AwareVal(Day(11) + 8, 0)}

\* The same kind of value on day 20, far outside every window.
MovedTo20(v) == IF IsDateOnly(v) THEN DateVal(20) ELSE [v EXCEPT !.t = Day(20) + 9]

Masters ==
    { VEvent("u1", None, TxtEmpty, Txt_a, Some(d), None, r, <<>>) :
        d \in MasterStarts,
        r \in {None, Some(Daily), Some(DailyTwice), Some(DailyUntilUtc)} }
    \cup
    { VEvent("u2", None, TxtEmpty, Txt_a, Some(d), None, r, <<>>) :
        d \in MasterStarts, r \in {Some(Daily), Some(DailyUntilUtc)} }

MastersWithExdate ==
    { VEvent("u1", None, TxtEmpty, Txt_a, Some(DateVal(9)), None, Some(Daily),
             <<DateVal(11)>>),
      VEvent("u1", None, TxtEmpty, Txt_a, Some(AwareVal(Day(9) + 8, 1)), None,
             Some(Daily), <<AwareVal(Day(11) + 8, 0)>>),
      \* EXDATE;VALUE=DATE on a zoned timed master
      VEvent("u1", None, TxtEmpty, Txt_a, Some(AwareVal(Day(9) + 8, 1)), None,
             Some(Daily), <<DateVal(11)>>) }

\* Masters with an explicit DTEND: one that precedes DTSTART, and a
\* recurring one of two hours.
MastersWithEnd ==
    { VEvent("u2", None, TxtEmpty, Txt_a, Some(NaiveVal(Day(10) + 9)),
             Some(NaiveVal(Day(10) + 8)), None, <<>>),
      VEvent("u2", None, TxtEmpty, Txt_a, Some(AwareVal(Day(9) + 8, 1)),
             Some(AwareVal(Day(9) + 10, 1)), Some(Daily), <<>>) }

Overrides ==
    UNION { { VEvent("u1", Some(a), TxtEmpty, Txt_B, None, None, None, <<>>),
              VEvent("u1", Some(a), TxtEmpty, Txt_B, Some(a), None, None, <<>>),
              VEvent("u1", Some(a), TxtEmpty, Txt_B, Some(MovedTo20(a)), None, None, <<>>) } :
            a \in AnchorsDay11 }

Cancellations ==
    { VEvent("u1", Some(a), TxtCANCELLED, Txt_a, Some(a), None, None, <<>>) :
        a \in AnchorsDay11 }
    \cup { VEvent("u1", None, TxtCANCELLED, Txt_a, Some(DateVal(9)), None, None, <<>>) }

\* Single events whose texts speak of cancelling: "cancel" alone, "Canceled"
\* in the summary, "CANCELLED" in the description.
CancelTexts ==
    { VEvent("u2", None, TxtEmpty, TxtCancel, Some(NaiveVal(Day(10) + 9)), None,
             None, <<>>),
      VEvent("u2", None, TxtEmpty, TxtCanceled, Some(NaiveVal(Day(10) + 9)), None,
             None, <<>>),
      [VEvent("u2", None, TxtEmpty, Txt_a, Some(NaiveVal(Day(10) + 9)), None,
              None, <<>>) EXCEPT !.description = TxtCANCELLED] }

\* Single events of three days without a summary: all-day and timed.
UnnamedSpans ==
    { VEvent("u2", None, TxtEmpty, TxtEmpty, Some(DateVal(10)), Some(DateVal(13)),
             None, <<>>),
      VEvent("u2", None, TxtEmpty, TxtEmpty, Some(NaiveVal(Day(10) + 9)),
             Some(NaiveVal(Day(13) + 9)), None, <<>>) }

\* An all-day DTSTART with a timed DTEND: the subtraction in Pass 1 raises.
Malformed ==
    { VEvent("u2", None, TxtEmpty, Txt_a, Some(DateVal(10)),
             Some(NaiveVal(Day(10) + 9)), None, <<>>) }

ComponentDomain ==
    Masters \cup MastersWithExdate \cup MastersWithEnd \cup Overrides
        \cup Cancellations \cup CancelTexts \cup UnnamedSpans \cup Malformed

\* UTC offsets of the target timezone, in hours.
Timezones == {-5, 0, 8}

\* "now": 20:00 UTC on day 10, which is day 11 east of UTC+4.
NowValues == {Day(10) + 20}

ParseInit ==
    /\ DistIdle
    /\ ValIdle
    /\ ConvIdle
    /\ MainIdle
    /\ RunIdle
    /\ parse_pc = "call"
    /\ ical_ok \in BOOLEAN
    /\ components \in (IF ical_ok THEN SeqsUpTo(ComponentDomain, MaxPayloadLen)
                                  ELSE {<<>>})
    /\ timezone \in Timezones
    /\ now \in NowValues
    /\ master_events = <<>>
    /\ overrides = <<>>
    /\ cancelled_keys = {}
    /\ all_events = <<>>
    /\ origin = <<>>

\* from_ical and Pass 1 over the whole payload; an exception ends
\* parse_events with the (still empty) all_events.
ParsePass1 ==
    /\ parse_pc = "call"
    /\ LET st == IF ical_ok THEN Pass1(components) ELSE Pass1(<<>>)
       IN  /\ master_events' = st.master_events
           /\ overrides' = st.overrides
           /\ cancelled_keys' = st.cancelled_keys
           /\ parse_pc' = IF RaisesEarly(ical_ok, components)
                           THEN AfterException ELSE "classified"
    /\ UNCHANGED <<ical_ok, components, timezone, now, all_events, origin>>
    /\ UNCHANGED dist_vars
    /\ UNCHANGED val_vars
    /\ UNCHANGED conv_vars
    /\ UNCHANGED main_vars
    /\ UNCHANGED run_vars

\* Pass 2 over all masters, and the return.
ParsePass2 ==
    /\ parse_pc = "classified"
    /\ LET r == Pass2(master_events, 1, overrides, cancelled_keys, now, timezone)
       IN  /\ all_events' = r.all_events
           /\ origin' = r.origin
    /\ parse_pc' = "returned"
    /\ UNCHANGED <<ical_ok, components, timezone, now, master_events, overrides,
                   cancelled_keys>>
    /\ UNCHANGED dist_vars
    /\ UNCHANGED val_vars
    /\ UNCHANGED conv_vars
    /\ UNCHANGED main_vars
    /\ UNCHANGED run_vars

ParseNext == ParsePass1 \/ ParsePass2

SpecParse == ParseInit /\ [][ParseNext]_vars

----------------------------------------------------------------------------
(* Claims about parse_events.                                              *)

ParseReturned == parse_pc = "returned"

\* An exception ended the run in Pass 1 (caught at the end of parse_events).
ParseAborted == ParseReturned /\ RaisesEarly(ical_ok, components)

\* The run went through both passes.
ParseCompleted == ParseReturned /\ ~RaisesEarly(ical_ok, components)

\* The start of an emitted event lies in the active window of the run,
\* [floor(now, 1 day), floor(now, 1 day) + 2 days] in the target timezone,
\* bounds included.
StartInsideWindow(e) ==
    /\ WindowStart(now, timezone) <= ArrowWall(e.begin_local)
    /\ ArrowWall(e.begin_local) <= WindowEnd(now, timezone)

\* C10: every instance emitted for a recurring master (is_recurring = true),
\* an instance taken from a RECURRENCE-ID override included, has its start
\* inside the active window, bounds inclusive.
C10_WindowContainment ==
    ParseReturned =>
        \A i \in 1..Len(all_events) :
            all_events[i].is_recurring => StartInsideWindow(all_events[i])

----------------------------------------------------------------------------
(* Overrides (C11).                                                        *)

\* Master m of master_events carries a rule that rrulestr accepts.
IsRecurringMaster(m) ==
    LET ev == master_events[m]
    IN  /\ ev.rrule # None /\ ev.dtstart # None
        /\ ~RuleParseFails(ev.rrule[1], ev.dtstart[1], timezone)

\* The occurrences generated for master m inside the window.
GeneratedOccurrences(m) ==
    LET ev  == master_events[m]
        occ == Occurrences(ev.rrule[1], ev.dtstart[1], now, timezone)
    IN  {occ[i] : i \in 1..Len(occ)}

\* The emitted events that stand for occurrence occ of master m.
InstancesOf(m, occ) ==
    {i \in 1..Len(all_events) :
        origin[i].master = m /\ origin[i].occ = Some(occ)}

HasOverride(m, occ) == OccKey(master_events[m].uid, occ) \in DOMAIN overrides

\* The occurrence is skipped: excluded by EXDATE or cancelled by key, or the
\* whole master is skipped because (uid, None) is cancelled.
Excluded(m, occ) ==
    LET ev == master_events[m]
    IN  \/ InExdates(occ, ev.exdate)
        \/ OccKey(ev.uid, occ) \in cancelled_keys
        \/ <<ev.uid, None>> \in cancelled_keys

\* Event e carries the override's texts and the override's own start and end
\* (the occurrence where the override has no DTSTART, the start where it has
\* no DTEND).
CarriesOverride(e, comp, occ) ==
    LET start == IF comp.dtstart # None THEN comp.dtstart[1] ELSE occ
        end   == IF comp.dtend # None THEN comp.dtend[1] ELSE start
    IN  /\ e.summary = comp.summary
        /\ e.location = comp.location
        /\ e.description = comp.description
        /\ e.begin_local = ArrowGetTo(start, timezone)
        /\ e.end_local = ArrowGetTo(end, timezone)

\* Event e carries the master's texts and starts at the occurrence.
CarriesMaster(e, ev, occ) ==
    /\ e.summary = ev.summary
    /\ e.location = ev.location
    /\ e.description = ev.description
    /\ e.begin_local = ArrowGetTo(occ, timezone)

\* Exactly one event is emitted for occurrence occ of master m, and it
\* carries the override stored under the occurrence's key.
ExactlyOneOverride(m, occ) ==
    /\ Cardinality(InstancesOf(m, occ)) = 1
    /\ \A i \in InstancesOf(m, occ) :
           CarriesOverride(all_events[i],
                           overrides[OccKey(master_events[m].uid, occ)], occ)

\* Exactly one event is emitted for occurrence occ of master m, and it
\* carries the master's content.
ExactlyOneMaster(m, occ) ==
    /\ Cardinality(InstancesOf(m, occ)) = 1
    /\ \A i \in InstancesOf(m, occ) :
           CarriesMaster(all_events[i], master_events[m], occ)

----------------------------------------------------------------------------
(* Excluded dates and cancelled occurrences (C12).                         *)

\* The calendar date of a value: of an aware datetime, in its own zone.
DateOf(v) ==
    CASE v.kind = "date"  -> v.t
      [] v.kind = "naive" -> v.t \div HoursPerDay
      [] OTHER            -> (v.t + v.off) \div HoursPerDay

\* The date of the occurrence is in the EXDATE list of the master.
DateInExdates(occ, exdates) ==
    \E k \in 1..Len(exdates) : DateOf(exdates[k]) = DateOf(occ)

\* C12: no instance of a recurring master is emitted for an occurrence
\* whose date is in that master's EXDATE list or whose key (uid, occurrence)
\* is in cancelled_keys; an EXDATE inside the window removes that day's
\* occurrence from the output.
C12_ExcludedNeverEmitted ==
    ParseReturned =>
        \A i \in 1..Len(all_events) :
            all_events[i].is_recurring =>
                LET ev  == master_events[origin[i].master]
                    occ == origin[i].occ[1]
                IN  /\ ~DateInExdates(occ, ev.exdate)
                    /\ OccKey(ev.uid, occ) \notin cancelled_keys

----------------------------------------------------------------------------
(* Failure isolation (C13).                                                *)

\* The component is a master (kept by Pass 1) whose rule rrulestr refuses.
FailingMaster(c) ==
    /\ c.recurrence_id = None /\ ~IsCancelled(c) /\ ~SpanRaises(c)
    /\ MasterRuleFails(c, timezone)

\* The payload without the masters whose rule is refused.
WithoutFailingMasters(comps) == SelectSeq(comps, LAMBDA c : ~FailingMaster(c))

\* C13: a rule-parsing failure while processing one master skips only that
\* master: the returned list is the list the same payload yields with the
\* failing masters taken out, so every other master, before or after, is
\* resolved and its instances are returned.
C13_FailureIsolation ==
    ParseReturned =>
        all_events = parse_events(ical_ok, WithoutFailingMasters(components),
                                  now, timezone)

\* A failing master nothing is emitted for, followed by a master whose
\* instances are returned.
C13_Witness ==
    /\ ParseCompleted
    /\ Len(master_events) >= 2
    /\ MasterRuleFails(master_events[1], timezone)
    /\ ~MasterRuleFails(master_events[2], timezone)
    /\ all_events # <<>>
    /\ \A i \in 1..Len(all_events) : origin[i].master = 2

----------------------------------------------------------------------------
(* The exception boundary (C14).                                           *)

\* C14: parse_events never raises to its caller, and for a malformed or
\* unparsable payload (from_ical refuses it, or a component makes Pass 1
\* raise) it returns an empty event list.
C14_NeverRaises ==
    /\ parse_pc # "raised"
    /\ (parse_pc = "returned" /\ RaisesEarly(ical_ok, components)) => all_events = <<>>

\* Returned with nothing although a master had been collected before the
\* component that makes Pass 1 raise.
C14_Witness ==
    /\ parse_pc = "returned" /\ ical_ok /\ Pass1(components).raised
    /\ Len(master_events) >= 1
    /\ all_events = <<>>

----------------------------------------------------------------------------
(* convert_to_local.                                                       *)

\* pytz.timezone(timezone_str) raises UnknownTimeZoneError: the identifier
\* is unknown (no offset).
UnknownTimezone(tz) == tz = None

\* convert_to_local(dt, timezone_str): the outcome of the call, either a
\* returned value or an exception leaving the function.
convert_to_local(dt, tz) ==
    IF dt = None THEN [raised |-> FALSE, value |-> None]
    ELSE IF IsDateOnly(dt[1]) THEN [raised |-> FALSE, value |-> dt]
    ELSE IF dt[1].kind = "naive" THEN [raised |-> FALSE, value |-> dt]
    ELSE IF UnknownTimezone(tz) THEN [raised |-> TRUE, value |-> None]
    ELSE [raised |-> FALSE, value |-> Some(AwareVal(dt[1].t, tz[1]))]

\* The arguments of the calls.
ConvValues ==
    {None}
    \cup {Some(DateVal(d)) : d \in 9..12}
    \cup {Some(NaiveVal(Day(d) + h)) : d \in 9..10, h \in {0, 9, 23}}
    \cup {Some(AwareVal(Day(d) + h, o)) : d \in 9..10, h \in {0, 9, 23}, o \in {-5, 0, 1}}

ConvTimezones == {None} \cup {Some(o) : o \in Timezones}

ConvInit ==
    /\ DistIdle
    /\ ValIdle
    /\ ParseIdle
    /\ MainIdle
    /\ RunIdle
    /\ conv_pc = "call"
    /\ conv_dt \in ConvValues
    /\ conv_tz \in ConvTimezones
    /\ conv_result = None

ConvCall ==
    /\ conv_pc = "call"
    /\ LET r == convert_to_local(conv_dt, conv_tz)
       IN  /\ conv_pc' = IF r.raised THEN "raised" ELSE "returned"
           /\ conv_result' = r.value
    /\ UNCHANGED <<conv_dt, conv_tz>>
    /\ UNCHANGED dist_vars
    /\ UNCHANGED val_vars
    /\ UNCHANGED parse_vars
    /\ UNCHANGED main_vars
    /\ UNCHANGED run_vars

ConvNext == ConvCall

SpecConv == ConvInit /\ [][ConvNext]_vars

\* Converting the argument fails: it is an aware instant and the target
\* timezone identifier is unknown.
ConversionFails ==
    /\ conv_dt # None /\ conv_dt[1].kind = "aware"
    /\ UnknownTimezone(conv_tz)

\* C15: no exception escapes convert_to_local; when converting an aware
\* instant fails (unknown target timezone), the original value is returned
\* unchanged.
C15_NoExceptionEscapes ==
    /\ conv_pc # "raised"
    /\ (conv_pc \notin {"idle", "call"} /\ ConversionFails) =>
           (conv_pc = "returned" /\ conv_result = conv_dt)

----------------------------------------------------------------------------
(* End defaulting (C16, C17).                                              *)

\* The component that supplies emitted event i: the override stored for its
\* occurrence, otherwise its master.
Governing(i) ==
    LET ev == master_events[origin[i].master]
    IN  IF origin[i].from_override
        THEN overrides[OccKey(ev.uid, origin[i].occ[1])]
        ELSE ev

\* The local calendar day of an Arrow.
LocalDay(a) == ArrowWall(a) \div HoursPerDay

\* C16: a timed event whose governing component (the master, or the
\* override that supplies the instance) has no explicit end gets
\* end = begin + 1 hour, and an all-day event with no explicit end gets an
\* end on the same day as its begin.
C16_DefaultEnd ==
    ParseReturned =>
        \A i \in 1..Len(all_events) :
            Governing(i).dtend = None =>
                IF all_events[i].all_day
                THEN LocalDay(all_events[i].end_local) = LocalDay(all_events[i].begin_local)
                ELSE all_events[i].end_local.utc =
                         all_events[i].begin_local.utc + DefaultDuration

\* C17: every emitted event satisfies end_local >= begin_local, whatever the
\* payload (a DTEND that precedes DTSTART included).
C17_EndNotBeforeBegin ==
    ParseReturned =>
        \A i \in 1..Len(all_events) :
            all_events[i].end_local.utc >= all_events[i].begin_local.utc

----------------------------------------------------------------------------
(* main: the page contexts of the two day sections.                        *)

MaxDayEvents == 7

CHECKLIST_TODAY ==
    <<"Top 3 Things", "Devotions, SFAD, Journal", "Meals & Expenses",
      "Pegboard Compline">>

CHECKLIST_TOMORROW ==
    <<"Top 3 Things", "Plan for SAFVC", "Zero Strikes Virgin Active",
      "All AMP Staged">>

\* create_blank_entry("notes"), as an item of an event list.
BlankEntry == 0

\* add_strategic_writing_spaces: a blank entry after every third event,
\* except after the last event.
add_strategic_writing_spaces(evs) ==
    IF evs = <<>> THEN evs
    ELSE [j \in 1..(Len(evs) + (Len(evs) - 1) \div 3) |->
             IF j % 4 = 0 THEN BlankEntry ELSE evs[j - j \div 4]]

\* for page_idx, target_items in enumerate(page_targets): ...
RECURSIVE PageLoop(_, _, _, _, _, _)
PageLoop(targets, idx, er, tr, ps, cap) ==
    IF idx > Len(targets) THEN [pages |-> ps, er |-> er, tr |-> tr]
    ELSE LET r == FillPage(er, tr, targets[idx], idx - 1, Len(targets), cap)
         IN  PageLoop(targets, idx + 1, r.er, r.tr, Append(ps, r.page), cap)

\* distribute_items_across_pages as one call: the returned page list.
distribute_items_across_pages(evs, tks, cap) ==
    LET total_items == Len(evs) + Len(tks)
    IN  IF total_items > ItemLimit THEN <<EmptyPage>>
        ELSE IF evs = <<>> /\ tks = <<>> THEN EmptyResult
        ELSE IF total_items <= cap THEN <<[events |-> evs, tasks |-> tks]>>
        ELSE LET l == PageLoop(PageTargets(total_items, cap), 1, evs, tks, <<>>, cap)
             IN  HandleRemaining(l.pages, l.er, l.tr, cap)

\* sum(1 for page in pages if page.get('tasks'))
PagesWithTasks(ps) == Cardinality({k \in 1..Len(ps) : ps[k].tasks # <<>>})

\* The day a page context is for: by content, else by page index.
ContextDay(i, page_data, first_tomorrow_page_idx) ==
    IF page_data.today_events # <<>> \/ page_data.today_tasks # <<>> THEN "today"
    ELSE IF page_data.tomorrow_events # <<>> \/ page_data.tomorrow_tasks # <<>>
    THEN "tomorrow"
    ELSE IF first_tomorrow_page_idx # None /\ i < first_tomorrow_page_idx[1]
    THEN "today"
    ELSE "tomorrow"

\* build_page_context: the fields of the context that depend on the page.
\* i is the 0-based global page number, first_tomorrow_page_idx is None or
\* Some(index).
build_page_context(i, page_data, first_tomorrow_page_idx, all_today_events, all_tomorrow_events, all_today_tasks, all_tomorrow_tasks, cap) ==
    LET day == ContextDay(i, page_data, first_tomorrow_page_idx)
        evs == IF day = "today" THEN page_data.today_events
                                ELSE page_data.tomorrow_events
        tks == IF day = "today" THEN page_data.today_tasks
                                ELSE page_data.tomorrow_tasks
        past_first ==
            IF day = "today" THEN i > 0
            ELSE first_tomorrow_page_idx # None /\ i > first_tomorrow_page_idx[1]
        all_events_of_day == IF day = "today" THEN all_today_events
                                              ELSE all_tomorrow_events
        all_tasks_of_day  == IF day = "today" THEN all_today_tasks
                                              ELSE all_tomorrow_tasks
        overflow_events ==
            /\ past_first /\ evs # <<>>
            /\ Len(all_events_of_day) > cap
        overflow_tasks ==
            /\ past_first /\ tks # <<>> /\ all_tasks_of_day # <<>>
            /\ PagesWithTasks(distribute_items_across_pages(
                   all_events_of_day, all_tasks_of_day, cap)) > 1
    IN  [events |-> evs, tasks |-> tks, page_number |-> i + 1,
         total_pages |-> 1, day |-> day, is_notes_page |-> FALSE,
         is_overflow_events_page |-> overflow_events,
         is_overflow_tasks_page |-> overflow_tasks]

\* create_notes_page_context(day, now, page_number, total_pages); the
\* context has no is_overflow_* keys, which reads as false.
create_notes_page_context(day, page_number, total_pages) ==
    [events |-> <<>>, tasks |-> <<>>, page_number |-> page_number,
     total_pages |-> total_pages, day |-> day, is_notes_page |-> TRUE,
     is_overflow_events_page |-> FALSE, is_overflow_tasks_page |-> FALSE]

\* The page_data main passes for a page of a day's distribution.
PageData(section, page) ==
    IF section = "today"
    THEN [today_events |-> page.events, tomorrow_events |-> <<>>,
          today_tasks |-> page.tasks, tomorrow_tasks |-> <<>>]
    ELSE [today_events |-> <<>>, tomorrow_events |-> page.events,
          today_tasks |-> <<>>, tomorrow_tasks |-> page.tasks]

\* "if not today_pages": one empty page stands for an empty page list.
OrEmptyPage(day_pages) == IF day_pages = <<>> THEN <<EmptyPage>> ELSE day_pages

\* The pages main builds contexts for in one day section: the pages of the
\* distribution, or one empty page when the distribution gave none.
SectionPages(section, te, tm, cap) ==
    OrEmptyPage(distribute_items_across_pages(
                    IF section = "today" THEN te ELSE tm,
                    IF section = "today" THEN CHECKLIST_TODAY ELSE CHECKLIST_TOMORROW,
                    cap))

\* The 1-based indices of 1..n that are not in failed, in increasing order.
Kept(n, failed) == SelectSeq([k \in 1..n |-> k], LAMBDA k : k \notin failed)

\* The ways the building of a section's contexts can fail: any of its pages,
\* and the notes page (n + 1), raises.
FailureSets(section, te, tm, cap) ==
    SUBSET (1..(Len(SectionPages(section, te, tm, cap)) + 1))

\* The contexts appended for the pages shown[kept[1]], shown[kept[2]], ... of
\* a section entered with global page counter g: the counter is advanced
\* after each append, so the j-th of them is built with g + j - 1.
PagesBuilt(section, g, first_idx, te, tm, cap, shown, kept) ==
    [j \in 1..Len(kept) |->
        build_page_context(g + j - 1, PageData(section, shown[kept[j]]), first_idx,
                           te, tm, CHECKLIST_TODAY, CHECKLIST_TOMORROW, cap)]

\* The notes page at the end of a section entered with counter g, after the
\* contexts in built were appended: it is built with global_page_number + 1
\* and counted, or skipped when it raises.
WithNotes(section, built, g, notes_failed) ==
    IF notes_failed
    THEN [contexts |-> built, global_page_number |-> g + Len(built)]
    ELSE [contexts |-> Append(built, create_notes_page_context(
                                         section, g + Len(built) + 1, 1)),
          global_page_number |-> g + Len(built) + 1]

\* A day section over the pages shown.
SectionOf(section, g, first_idx, te, tm, cap, failed, shown) ==
    WithNotes(section,
              PagesBuilt(section, g, first_idx, te, tm, cap, shown,
                         Kept(Len(shown), failed)),
              g, (Len(shown) + 1) \in failed)

\* Variant: the global page counter also counts a page whose context could
\* not be built.
SectionContextsCountSkipped(section, g, first_idx, te, tm, cap, failed) ==
    LET shown == SectionPages(section, te, tm, cap)
        n     == Len(shown)
        kept  == Kept(n, failed)
        built == [j \in 1..Len(kept) |->
                     build_page_context(g + kept[j] - 1, PageData(section, shown[kept[j]]),
                                        first_idx, te, tm, CHECKLIST_TODAY,
                                        CHECKLIST_TOMORROW, cap)]
    IN  IF (n + 1) \in failed
        THEN [contexts |-> built, global_page_number |-> g + n]
        ELSE [contexts |-> Append(built, create_notes_page_context(section, g + n + 1, 1)),
              global_page_number |-> g + n + 1]

\* One day section of main, entered with global page counter g: a context
\* per page of the section, then the notes page.  failed holds the pages
\* (n + 1 stands for the notes page) whose context raises while it is built:
\* such a page is skipped and the counter is not advanced.  The result is the
\* list of appended contexts and the counter after the section.
SectionContexts(section, g, first_idx, te, tm, cap, failed) ==
    SectionOf(section, g, first_idx, te, tm, cap, failed,
              SectionPages(section, te, tm, cap))

\* What each context of a section of n pages was built for.
BuiltForOf(section, n, failed) ==
    LET kept == Kept(n, failed)
        for_pages == [j \in 1..Len(kept) |->
                         [section |-> section, kind |-> "page", page_idx |-> kept[j] - 1]]
    IN  IF (n + 1) \in failed
        THEN for_pages
        ELSE Append(for_pages, [section |-> section, kind |-> "notes", page_idx |-> n])

SectionBuiltFor(section, te, tm, cap, failed) ==
    BuiltForOf(section, Len(SectionPages(section, te, tm, cap)), failed)

\* The minimal context main writes as a literal when the fallback page cannot
\* be built, or when building the contexts failed as a whole.
MinimalContext ==
    [events |-> <<>>, tasks |-> <<>>, page_number |-> 1, total_pages |-> 1,
     day |-> "today", is_notes_page |-> FALSE,
     is_overflow_events_page |-> FALSE, is_overflow_tasks_page |-> FALSE]

\* "Ensure we have at least one page": the list, with the fallback page when
\* it is empty.
WithFallback(contexts, fallback_raises, cap) ==
    IF contexts # <<>> THEN contexts
    ELSE IF fallback_raises THEN <<MinimalContext>>
    ELSE <<build_page_context(0, PageData("today", EmptyPage), None, <<>>, <<>>,
                              <<>>, <<>>, cap)>>

\* for ctx in page_contexts: ctx['total_pages'] = total_pages
WithTotalPages(contexts) ==
    [k \in 1..Len(contexts) |-> [contexts[k] EXCEPT !.total_pages = Len(contexts)]]

\* The numbers of real events of a day: a few, or enough to pass the
\* safety limit of the distribution.
DayEventCounts == (0..MaxDayEvents) \cup {ItemLimit}

\* Values of Config.MAX_ITEMS_PER_PAGE (MAX_ITEMS_PER_PAGE in the environment;
\* the default is 6).
PageCapacities == {5, 6}

MainInit ==
    /\ DistIdle
    /\ ValIdle
    /\ ParseIdle
    /\ ConvIdle
    /\ RunIdle
    /\ main_pc = "call"
    /\ \E n \in DayEventCounts : today_events = add_strategic_writing_spaces(Ids(n))
    /\ \E n \in DayEventCounts : tomorrow_events = add_strategic_writing_spaces(Ids(n))
    /\ max_per_page \in PageCapacities
    /\ page_contexts = <<>>
    /\ global_page_number = 0
    /\ built_for = <<>>

\* page_contexts.append(...) and global_page_number += 1 for a section.
AppendSection(r, made_for) ==
    /\ page_contexts' = page_contexts \o r.contexts
    /\ global_page_number' = r.global_page_number
    /\ built_for' = built_for \o made_for

\* "Add today pages" up to the today notes page.
MainBuildToday ==
    /\ main_pc = "call"
    /\ \E failed \in FailureSets("today", today_events, tomorrow_events, max_per_page) :
          AppendSection(
              SectionContexts("today", global_page_number, None, today_events,
                              tomorrow_events, max_per_page, failed),
              SectionBuiltFor("today", today_events, tomorrow_events, max_per_page,
                              failed))
    /\ main_pc' = "today_built"
    /\ UNCHANGED <<today_events, tomorrow_events, max_per_page>>
    /\ UNCHANGED dist_vars
    /\ UNCHANGED val_vars
    /\ UNCHANGED parse_vars
    /\ UNCHANGED conv_vars
    /\ UNCHANGED run_vars

\* "Add tomorrow pages" up to the tomorrow notes page;
\* first_tomorrow_page_idx = global_page_number.
MainBuildTomorrow ==
    /\ main_pc = "today_built"
    /\ \E failed \in FailureSets("tomorrow", today_events, tomorrow_events, max_per_page) :
          AppendSection(
              SectionContexts("tomorrow", global_page_number, Some(global_page_number),
                              today_events, tomorrow_events, max_per_page, failed),
              SectionBuiltFor("tomorrow", today_events, tomorrow_events, max_per_page,
                              failed))
    /\ main_pc' = "built"
    /\ UNCHANGED <<today_events, tomorrow_events, max_per_page>>
    /\ UNCHANGED dist_vars
    /\ UNCHANGED val_vars
    /\ UNCHANGED parse_vars
    /\ UNCHANGED conv_vars
    /\ UNCHANGED run_vars

\* The list is final: total_pages is written into every context.
FinishWith(final, replaced) ==
    /\ page_contexts' = WithTotalPages(final)
    /\ built_for' = IF replaced
                    THEN <<[section |-> "none", kind |-> "fallback", page_idx |-> 0]>>
                    ELSE built_for

\* The fallback page, the handler of a failure of the whole block, and the
\* update of total_pages: the list handed to generate_multipage_pdf.
MainFinish ==
    /\ main_pc = "built"
    /\ \E fatal \in BOOLEAN, fallback_raises \in BOOLEAN :
          FinishWith(IF fatal THEN <<MinimalContext>>
                     ELSE WithFallback(page_contexts, fallback_raises, max_per_page),
                     fatal \/ page_contexts = <<>>)
    /\ main_pc' = "ready"
    /\ UNCHANGED <<today_events, tomorrow_events, max_per_page, global_page_number>>
    /\ UNCHANGED dist_vars
    /\ UNCHANGED val_vars
    /\ UNCHANGED parse_vars
    /\ UNCHANGED conv_vars
    /\ UNCHANGED run_vars

MainNext == MainBuildToday \/ MainBuildTomorrow \/ MainFinish

SpecMain == MainInit /\ [][MainNext]_vars

----------------------------------------------------------------------------
(* Claims about the page contexts.                                         *)

\* The indices of the contexts of a day section that come before context k
\* and were built from its distribution.
EarlierPages(k) ==
    {j \in 1..(k - 1) :
        built_for[j].section = built_for[k].section /\ built_for[j].kind = "page"}

\* C18: in the page contexts main builds for one day,
\* is_overflow_events_page is true on a page exactly when that page holds
\* events and an earlier page of the same day also holds events, and
\* is_overflow_tasks_page is true exactly when that page holds tasks and an
\* earlier page of the same day also holds tasks.
C18_OverflowFlags ==
    \A k \in 1..Len(page_contexts) :
        built_for[k].kind = "page" =>
            /\ page_contexts[k].is_overflow_events_page
                  <=> /\ page_contexts[k].events # <<>>
                      /\ \E j \in EarlierPages(k) : page_contexts[j].events # <<>>
            /\ page_contexts[k].is_overflow_tasks_page
                  <=> /\ page_contexts[k].tasks # <<>>
                      /\ \E j \in EarlierPages(k) : page_contexts[j].tasks # <<>>

\* C19: every context built from a page of today's distribution (or as the
\* empty today page) carries day = "today" and every context built for
\* tomorrow's section carries day = "tomorrow", also when the page holds no
\* events and no tasks.
C19_DayLabel ==
    \A k \in 1..Len(page_contexts) :
        built_for[k].kind = "page" =>
            page_contexts[k].day = built_for[k].section

----------------------------------------------------------------------------
(* Cancellation by text (C20).                                             *)

\* The summary or the description contains the word, letter case ignored.
Mentions(c, word) ==
    \/ Contains(Lower(c.summary), word)
    \/ Contains(Lower(c.description), word)

\* Pass 1 classified the component as cancelled: its key is in
\* cancelled_keys and it is neither a master nor an override, so nothing is
\* emitted for it.
ClassifiedCancelled(c) ==
    /\ ComponentKey(c) \in cancelled_keys
    /\ \A m \in 1..Len(master_events) : master_events[m] # c
    /\ \A k \in DOMAIN overrides : overrides[k] # c

----------------------------------------------------------------------------
(* Cancellation by span (C21).                                             *)

\* The component has a start and an end of the same type, more than one day
\* apart, and no summary.
UnnamedLongSpan(c) ==
    /\ c.dtstart # None /\ c.dtend # None
    /\ c.dtstart[1].kind = c.dtend[1].kind
    /\ c.summary = TxtEmpty
    /\ IF IsDateOnly(c.dtstart[1])
       THEN c.dtend[1].t - c.dtstart[1].t > 1
       ELSE c.dtend[1].t - c.dtstart[1].t > HoursPerDay

----------------------------------------------------------------------------
(* Events before tasks in the page distribution (C22).                     *)

\* The pages built so far: every page that holds a task has, together with
\* the pages before it, all the input events; no page after it holds an
\* event; at most one page holds both events and tasks.
TasksFollowEvents ==
    /\ \A k \in 1..Len(pages) :
          pages[k].tasks # <<>> =>
              /\ FlatEvents(pages, 1, k) = events
              /\ \A j \in (k + 1)..Len(pages) : pages[j].events = <<>>
    /\ Cardinality({k \in 1..Len(pages) :
                       pages[k].events # <<>> /\ pages[k].tasks # <<>>}) <= 1

\* A step that puts a task on a page leaves no event waiting.
TaskPlacedLast ==
    (dist_pc = "fill" /\ Len(tasks_remaining') < Len(tasks_remaining))
        => events_remaining' = <<>>

\* C22: events are placed before tasks.  At every moment of the call a page
\* holds a task only when every input event is on that page or an earlier
\* one, no page after a page with a task holds an event, at most one page
\* holds both, and no step places a task while an event is still waiting.
C22_EventsBeforeTasks == [](TasksFollowEvents) /\ [][TaskPlacedLast]_vars

\* C22 witness: a returned distribution with a page of events only, then the
\* one page holding both events and tasks, then a page of tasks only.
C22_Witness ==
    /\ Returned
    /\ \E k \in 2..(Len(pages) - 1) :
          /\ pages[k].events # <<>> /\ pages[k].tasks # <<>>
          /\ pages[k - 1].events # <<>> /\ pages[k - 1].tasks = <<>>
          /\ pages[k + 1].events = <<>> /\ pages[k + 1].tasks # <<>>

----------------------------------------------------------------------------
(* main: command line flags, pre-flight checks and the upload.             *)

Flags == {"--test-mode", "--test-connection", "--diagnose-paths"}

required_tools == {"scp", "ssh"}

\* The calls of main that can raise and whose failure main handles.
FallibleCalls ==
    {"diagnose_output_paths", "get_weather_data", "generate_multipage_pdf",
     "check_remarkable_availability", "upload_to_remarkable"}

\* pre_flight_checks: the value it stores in the global UPLOAD_DISABLED, and
\* whether it raises FileNotFoundError for the template afterwards.
pre_flight_checks(found, key_is_file, tmpl) ==
    LET ssh_available == required_tools \subseteq found /\ key_is_file
    IN  [UPLOAD_DISABLED |-> ~ssh_available, raised |-> tmpl # "file"]

\* globals().get('UPLOAD_DISABLED', False)
upload_disabled == IF UPLOAD_DISABLED = <<>> THEN FALSE ELSE UPLOAD_DISABLED[1]

RunInit ==
    /\ DistIdle
    /\ ValIdle
    /\ ParseIdle
    /\ ConvIdle
    /\ MainIdle
    /\ run_pc = "start"
    /\ argv \in SUBSET Flags
    /\ on_path \in SUBSET required_tools
    /\ ssh_key_is_file \in BOOLEAN
    /\ template \in {"file", "dir", "missing"}
    /\ remarkable_ip \in BOOLEAN
    /\ failing \in SUBSET FallibleCalls
    /\ UPLOAD_DISABLED = <<>>
    /\ called = <<>>

\* The --diagnose-paths and --test-connection modes, which end the run.
RunArguments ==
    /\ run_pc = "start"
    /\ IF "--diagnose-paths" \in argv
       THEN /\ called' = Append(called, "diagnose_output_paths")
            /\ run_pc' = IF "diagnose_output_paths" \in failing
                         THEN "exit1" ELSE "returned"
       ELSE IF "--test-connection" \in argv
       THEN IF "check_remarkable_availability" \in failing
            THEN /\ called' = Append(called, "check_remarkable_availability")
                 /\ run_pc' = "exit1"
            ELSE /\ called' = called \o <<"check_remarkable_availability",
                                          "get_weather_data">>
                 /\ run_pc' = IF "get_weather_data" \in failing
                              THEN "exit1" ELSE "returned"
       ELSE /\ called' = called
            /\ run_pc' = "flags"
    /\ UNCHANGED <<argv, on_path, ssh_key_is_file, template, remarkable_ip,
                   failing, UPLOAD_DISABLED>>
    /\ UNCHANGED dist_vars
    /\ UNCHANGED val_vars
    /\ UNCHANGED parse_vars
    /\ UNCHANGED conv_vars
    /\ UNCHANGED main_vars

\* if test_mode: globals()['UPLOAD_DISABLED'] = True
RunTestMode ==
    /\ run_pc = "flags"
    /\ UPLOAD_DISABLED' = IF "--test-mode" \in argv THEN <<TRUE>> ELSE UPLOAD_DISABLED
    /\ run_pc' = "config"
    /\ UNCHANGED <<argv, on_path, ssh_key_is_file, template, remarkable_ip,
                   failing, called>>
    /\ UNCHANGED dist_vars
    /\ UNCHANGED val_vars
    /\ UNCHANGED parse_vars
    /\ UNCHANGED conv_vars
    /\ UNCHANGED main_vars

\* The template check of main, then pre_flight_checks inside its try/except.
RunPreFlight ==
    /\ run_pc = "config"
    /\ IF template = "missing"
       THEN /\ run_pc' = "exit1"
            /\ UNCHANGED <<UPLOAD_DISABLED, called>>
       ELSE LET r == pre_flight_checks(on_path, ssh_key_is_file, template)
            IN  /\ called' = Append(called, "pre_flight_checks")
                /\ UPLOAD_DISABLED' = IF r.raised THEN <<TRUE>>
                                      ELSE <<r.UPLOAD_DISABLED>>
                /\ run_pc' = "generate"
    /\ UNCHANGED <<argv, on_path, ssh_key_is_file, template, remarkable_ip, failing>>
    /\ UNCHANGED dist_vars
    /\ UNCHANGED val_vars
    /\ UNCHANGED parse_vars
    /\ UNCHANGED conv_vars
    /\ UNCHANGED main_vars

\* Data fetch, page contexts and the PDF; a failing PDF generation is raised
\* again and ends the run.
RunGenerate ==
    /\ run_pc = "generate"
    /\ called' = Append(called, "generate_multipage_pdf")
    /\ run_pc' = IF "generate_multipage_pdf" \in failing THEN "exit1" ELSE "upload"
    /\ UNCHANGED <<argv, on_path, ssh_key_is_file, template, remarkable_ip,
                   failing, UPLOAD_DISABLED>>
    /\ UNCHANGED dist_vars
    /\ UNCHANGED val_vars
    /\ UNCHANGED parse_vars
    /\ UNCHANGED conv_vars
    /\ UNCHANGED main_vars

\* "Upload to reMarkable with error handling".
RunUpload ==
    /\ run_pc = "upload"
    /\ called' =
          IF remarkable_ip /\ ~upload_disabled
          THEN IF "check_remarkable_availability" \in failing
               THEN Append(called, "check_remarkable_availability")
               ELSE called \o <<"check_remarkable_availability", "upload_to_remarkable">>
          ELSE called
    /\ run_pc' = "returned"
    /\ UNCHANGED <<argv, on_path, ssh_key_is_file, template, remarkable_ip,
                   failing, UPLOAD_DISABLED>>
    /\ UNCHANGED dist_vars
    /\ UNCHANGED val_vars
    /\ UNCHANGED parse_vars
    /\ UNCHANGED conv_vars
    /\ UNCHANGED main_vars

RunNext == RunArguments \/ RunTestMode \/ RunPreFlight \/ RunGenerate \/ RunUpload

SpecRun == RunInit /\ [][RunNext]_vars

\* The device calls made so far in this run.
DeviceCalls ==
    {i \in 1..Len(called) :
        called[i] \in {"check_remarkable_availability", "upload_to_remarkable"}}

\* C23: when main runs with --test-mode, neither check_remarkable_availability
\* nor upload_to_remarkable is called on any path of the run, whatever
\* pre_flight_checks finds about the SSH tools and the key.
C23_TestModeSkipsUpload == ("--test-mode" \in argv) => DeviceCalls = {}

----------------------------------------------------------------------------
(* Page numbers of the final list (C24).                                   *)

\* main has prepared the list it hands to generate_multipage_pdf.
ListReady == main_pc = "ready"

\* C24: in the final page-context list the k-th context (1-based) has
\* page_number = k and every context has total_pages = N, the length of the
\* list; also when building some page context raised and the page was
\* skipped, and for the notes pages.
C24_PageNumbers ==
    ListReady =>
        \A k \in 1..Len(page_contexts) :
            /\ page_contexts[k].page_number = k
            /\ page_contexts[k].total_pages = Len(page_contexts)

\* C24 witness: a final list of at least four contexts, with both notes
\* pages, for which a page of each day section was skipped.
C24_Witness ==
    /\ ListReady
    /\ Len(page_contexts) >= 4
    /\ global_page_number = Len(page_contexts)
    /\ \E k \in 1..Len(built_for) : built_for[k].kind = "notes" /\ built_for[k].section = "today"
    /\ \E k \in 1..Len(built_for) : built_for[k].kind = "notes" /\ built_for[k].section = "tomorrow"
    /\ \E k \in 1..Len(built_for) :
          /\ built_for[k].kind = "page" /\ built_for[k].section = "today"
          /\ built_for[k].page_idx > 0
          /\ \A j \in 1..Len(built_for) :
                ~(built_for[j].section = "today" /\ built_for[j].page_idx = 0)
    /\ \E k \in 1..Len(built_for) :
          /\ built_for[k].kind = "page" /\ built_for[k].section = "tomorrow"
          /\ built_for[k].page_idx > 0
          /\ \A j \in 1..Len(built_for) :
                ~(built_for[j].section = "tomorrow" /\ built_for[j].page_idx = 0)

----------------------------------------------------------------------------
(* The multi-page branch follows its targets exactly (C25).                *)

\* The call is in, or has returned from, the multi-page branch.
MultiPage == dist_pc \in {"fill", "returned"} /\ page_targets # <<>>

\* The targets before the "at least 4 items" floor is applied.
RawTargets ==
    LET p == MinPagesNeeded(TotalItems, max_items)
    IN  [i \in 1..p |-> (TotalItems \div p) + (IF i - 1 < TotalItems % p THEN 1 ELSE 0)]

\* The next iteration of the page loop would reach the one-extra-item top-up
\* with its condition true.
TopUpFires ==
    /\ dist_pc = "fill" /\ page_idx <= Len(page_targets)
    /\ LET target_items == page_targets[page_idx]
           fe == FillEvents(<<>>, events_remaining, 0, target_items)
           ft == FillTasks(<<>>, tasks_remaining, fe.items, target_items)
       IN  /\ ft.items < target_items
           /\ page_idx - 1 < Len(page_targets) - 1
           /\ ft.items < max_items

\* The page loop has ended with items still waiting.
LeftoverReached ==
    /\ dist_pc = "fill" /\ page_idx > Len(page_targets)
    /\ (events_remaining # <<>> \/ tasks_remaining # <<>>)

\* C25: in the multi-page branch (total > max_items >= 1) the floor
\* min(4, total // p) changes no target (compared when the page loop is
\* entered; the targets are not written afterwards), every page holds its
\* target (each page as it is appended, and all of them at the return), the
\* top-up never fires, nothing is left after the page loop, and the page
\* totals differ by at most 1.
C25_TargetsMet ==
    MultiPage =>
        /\ TotalItems > max_items
        /\ pages = <<>> => page_targets = RawTargets
        /\ pages # <<>> => PageTotal(pages[Len(pages)]) = page_targets[Len(pages)]
        /\ ~TopUpFires
        /\ ~LeftoverReached
        /\ Returned =>
              /\ PageTotals(pages) = page_targets
              /\ MaxSeq(PageTotals(pages)) - MinSeq(PageTotals(pages)) <= 1

\* C25 witness: a returned multi-page distribution of at least three pages
\* with unequal targets, below the floor value of 4 on some page.
C25_Witness ==
    /\ Returned /\ MultiPage
    /\ Len(pages) >= 3
    /\ PageTotals(pages) = page_targets
    /\ MaxSeq(page_targets) = MinSeq(page_targets) + 1
    /\ MinSeq(page_targets) < 4

----------------------------------------------------------------------------
(* The validation gate and the safety limit (C26, C27).                    *)

\* C26: for every input with max_items >= 1 and at most 1000 combined
\* items, validate_distribution_balance returns True on the pages the
\* distribution produced: the "failed validation" path is not taken.
C26_GatePasses ==
    (Returned /\ TotalItems <= ItemLimit) => validation = "passed"

\* C26 witness: exactly 1000 items distributed over several pages of unequal
\* totals, and the gate has passed.
C26_Witness ==
    /\ Returned /\ TotalItems = ItemLimit /\ validation = "passed"
    /\ Len(pages) > 1
    /\ MaxSeq(PageTotals(pages)) > MinSeq(PageTotals(pages))

\* C27: with more than 1000 combined items the call returns exactly one
\* page with no events and no tasks, without running the validation gate;
\* with exactly 1000 items the normal distribution runs: every item is
\* placed and the gate is run.
C27_SafetyLimit ==
    Returned =>
        /\ TotalItems > 1000 =>
              /\ pages = <<[events |-> <<>>, tasks |-> <<>>]>>
              /\ validation = "not_run"
        /\ TotalItems = 1000 =>
              /\ Conserved
              /\ validation # "not_run"

\* C27 witness: a call with 1001 items has returned the single empty page.
C27_Witness ==
    /\ Returned /\ TotalItems = 1001
    /\ Len(pages) = 1 /\ PageTotal(pages[1]) = 0
    /\ validation = "not_run"

----------------------------------------------------------------------------
(* A dropped duplicate and its retained twin (C28).                        *)

\* The input event at position j is in the returned list.
RetainedInput(j) ==
    \E k \in 1..Len(cleaned_events) : cleaned_events[k] = val_events[j]

\* C28: in validate_events every event dropped as a duplicate has an earlier
\* event with the same identity key (summary, begin, end, all_day) that is
\* retained in the output, also when the earlier event with that key was
\* removed by the residual-cancellation sweep or the all-day bleed check.
C28_DuplicateHasRetainedTwin ==
    ValReturned =>
        \A i \in 1..Len(val_events) :
            IsLater(i) =>
                \E j \in 1..(i - 1) :
                    /\ EventKey(val_events[j]) = EventKey(val_events[i])
                    /\ RetainedInput(j)

----------------------------------------------------------------------------
(* All-day events and their local day (C29).                               *)

\* is_event_for_day of main; day_start and day_end are local midnights,
\* given as wall-clock hours of the target timezone.
is_event_for_day(event, day_start, day_end) ==
    IF event.all_day
    THEN FloorDay(ArrowWall(event.begin_local)) = day_start
    ELSE /\ ArrowWall(event.begin_local) < day_end
         /\ ArrowWall(event.end_local) > day_start

\* The start value emitted event i was made from (dtstart_inst, or DTSTART
\* of a single event).
InstanceStart(i) ==
    LET g == Governing(i)
    IN  IF origin[i].from_override /\ g.dtstart # None THEN g.dtstart[1]
        ELSE IF origin[i].occ # None THEN origin[i].occ[1]
        ELSE g.dtstart[1]

\* C29: for every all-day VEVENT on date D and every target timezone, the
\* emitted begin_local falls on local date D, so that main's is_event_for_day
\* assigns the event to day D.
C29_AllDayOnItsDate ==
    ParseReturned =>
        \A i \in 1..Len(all_events) :
            all_events[i].all_day =>
                LET D == InstanceStart(i).t
                IN  /\ LocalDay(all_events[i].begin_local) = D
                    /\ is_event_for_day(all_events[i], D * HoursPerDay,
                                        (D + 1) * HoursPerDay)

----------------------------------------------------------------------------
(* Position of overrides and cancellations in the payload (C30).           *)

\* Pass 1 puts the component among the masters.
IsMasterComponent(c) == ~SpanRaises(c) /\ ~IsCancelled(c) /\ c.recurrence_id = None

\* Pass 1 stores the component as an override.
IsOverrideComponent(c) == ~SpanRaises(c) /\ ~IsCancelled(c) /\ c.recurrence_id # None

\* The component is a RECURRENCE-ID override or a cancelled component.
IsSatellite(c) == ~SpanRaises(c) /\ (IsCancelled(c) \/ c.recurrence_id # None)

\* The payload with component i taken out and put back at position j.
Moved(comps, i, j) ==
    LET without == [k \in 1..(Len(comps) - 1) |-> IF k < i THEN comps[k] ELSE comps[k + 1]]
    IN  [k \in 1..Len(comps) |->
            IF k < j THEN without[k] ELSE IF k = j THEN comps[i] ELSE without[k - 1]]

\* The positions component i passes when it is moved to position j.
Passed(i, j) == IF i < j THEN (i + 1)..j ELSE j..(i - 1)

\* Moving component i to position j changes where an override or a
\* cancellation stands relative to a master with its UID, and changes the
\* order of no two overrides stored under one key.
MovesAcrossMaster(i, j) ==
    /\ i # j
    /\ IsSatellite(components[i])
    /\ \E k \in Passed(i, j) :
          IsMasterComponent(components[k]) /\ components[k].uid = components[i].uid
    /\ \A k \in Passed(i, j) :
          ~(/\ IsOverrideComponent(components[i])
            /\ IsOverrideComponent(components[k])
            /\ ComponentKey(components[k]) = ComponentKey(components[i]))

\* The set of the events of a returned list.
EmittedSet(evs) == {evs[k] : k \in 1..Len(evs)}

\* C30: the set of emitted events does not depend on where an override or a
\* cancellation VEVENT stands relative to its master: the payload with such
\* a component moved to the other side of a master with the same UID yields
\* the same set of events.
C30_PositionIndependent ==
    ParseReturned =>
        \A i \in 1..Len(components), j \in 1..Len(components) :
            MovesAcrossMaster(i, j) =>
                EmittedSet(parse_events(ical_ok, Moved(components, i, j), now, timezone))
                    = EmittedSet(all_events)

\* C30 witness: an override that stands before its master in the payload,
\* and the instance it supplies is emitted.
C30_Witness ==
    /\ ParseCompleted
    /\ Len(components) = 2
    /\ IsOverrideComponent(components[1])
    /\ MovesAcrossMaster(1, 2)
    /\ \E k \in 1..Len(all_events) :
          origin[k].from_override /\ all_events[k].summary = components[1].summary

=============================================================================
